---- MODULE Spec2Model ----
(***************************************************************************)
(* Streaming chat gateway of src-tauri: the chat_stream command            *)
(* (ai_commands.rs) with the configuration resolver of ai_chat.rs.         *)
(*                                                                         *)
(* Text is modelled as a sequence of one-character strings.  A byte of     *)
(* the HTTP body is either an ASCII character (the same one-character      *)
(* string) or one of the two bytes "xC3", "xA9" of the UTF-8 encoding of   *)
(* U+00E9; the decoded characters are the ASCII characters, "U00E9" and    *)
(* the replacement character "UFFFD".                                      *)
(***************************************************************************)
EXTENDS Integers, Sequences, FiniteSets, TLC

VARIABLES
    scn,             \* which family of inputs this run draws from (environment)
    env,             \* process environment: variable name -> Option(text)
    req,             \* the invocation's arguments: payload fields and overrides
    pc,              \* position of chat_stream: "idle", "send", "stream", "done"
    result,          \* Result returned by chat_stream: <<>> while running, <<"Ok">>, <<"Err", kind>>
    events,          \* events passed to window.emit("chat-stream", ..), in call order
    lost,            \* indices of events whose emit call returned an error
    requests,        \* HTTP requests issued, in order
    script,          \* the lines the provider sends in the response (set with body)
    body,            \* bytes of the HTTP response body (set when the response arrives)
    pos,             \* number of bytes of body already delivered by bytes_stream
    buffer,          \* `buffer`: decoded text not yet consumed
    tool_call_args,  \* `tool_call_args`: call id -> <<tool name, accumulated arguments>>
    peers,           \* what other invocations, given no overrides, resolved from env
    other            \* a second invocation on the same window: its position, result,
                     \* body, buffer and tool-call map, and its emit calls, each with
                     \* the number of emit calls of the first invocation made before it

vars == <<scn, env, req, pc, result, events, lost, requests, script, body, pos, buffer,
          tool_call_args, peers, other>>

-----------------------------------------------------------------------------
(* Option<T> as a sequence of length at most one. *)
None == <<>>
Some(x) == <<x>>
IsSome(o) == o # <<>>
Unwrap(o) == o[1]
OrElse(o, p) == IF IsSome(o) THEN o ELSE p

-----------------------------------------------------------------------------
(* Text helpers (str methods of the Rust standard library). *)

WhiteSpace == {" ", "\t", "\r", "\n"}


\* str::trim
Trim(s) ==
    IF \A i \in 1..Len(s) : s[i] \in WhiteSpace THEN <<>>
    ELSE SubSeq(s,
                CHOOSE i \in 1..Len(s) :
                    s[i] \notin WhiteSpace /\ \A k \in 1..(i - 1) : s[k] \in WhiteSpace,
                CHOOSE j \in 1..Len(s) :
                    s[j] \notin WhiteSpace /\ \A k \in (j + 1)..Len(s) : s[k] \in WhiteSpace)

\* index of the first occurrence of c at or after index i, 0 when there is none
FindFrom(s, c, i) ==
    IF \E j \in i..Len(s) : s[j] = c
    THEN CHOOSE j \in i..Len(s) : s[j] = c /\ \A k \in i..(j - 1) : s[k] # c
    ELSE 0

\* str::find(c): index of the first occurrence, 0 when there is none
Find(s, c) == FindFrom(s, c, 1)

\* str::split(c): the pieces between occurrences of c (always at least one piece)
RECURSIVE Split(_, _)
Split(s, c) ==
    LET p == Find(s, c)
    IN  IF p = 0 THEN <<s>>
        ELSE <<SubSeq(s, 1, p - 1)>> \o Split(SubSeq(s, p + 1, Len(s)), c)

StartsWith(s, p) == Len(s) >= Len(p) /\ SubSeq(s, 1, Len(p)) = p

\* str::strip_prefix
StripPrefix(s, p) ==
    IF StartsWith(s, p) THEN Some(SubSeq(s, Len(p) + 1, Len(s))) ELSE None

\* the elements of a sequence of texts that are not empty, in order
NonEmpty(seq) == SelectSeq(seq, LAMBDA x : x # <<>>)

\* the indices lo..hi as a sequence
Indices(lo, hi) == [i \in 1..(hi - lo + 1) |-> lo + i - 1]

Range(seq) == {seq[i] : i \in 1..Len(seq)}

UpperCase == <<"A","B","C","D","E","F","G","H","I","J","K","L","M",
               "N","O","P","Q","R","S","T","U","V","W","X","Y","Z">>
LowerCase == <<"a","b","c","d","e","f","g","h","i","j","k","l","m",
               "n","o","p","q","r","s","t","u","v","w","x","y","z">>

\* str::to_lowercase on the characters of this model
ToLowerChar(c) ==
    LET i == Find(UpperCase, c) IN IF i = 0 THEN c ELSE LowerCase[i]

\* ToLowercase leaving the text as it is
ToLowercase_as_is(s) == s

ToLowercase(s) == [i \in 1..Len(s) |-> ToLowerChar(s[i])]

-----------------------------------------------------------------------------
(* String::from_utf8_lossy on the bytes of this model: an ASCII byte is its *)
(* character, the pair xC3 xA9 is U+00E9, and a lead byte without its       *)
(* continuation byte, or a continuation byte without its lead byte, is      *)
(* replaced by U+FFFD.                                                      *)

LeadByte == "xC3"
ContByte == "xA9"

\* TRUE for the continuation byte of a complete two-byte sequence
CompletesPair(bytes, i) == bytes[i] = ContByte /\ i > 1 /\ bytes[i - 1] = LeadByte

\* the character decoded at byte i, which is not the second byte of a pair
DecodedAt(bytes, i) ==
    IF bytes[i] = LeadByte
    THEN IF i < Len(bytes) /\ bytes[i + 1] = ContByte THEN "U00E9" ELSE "UFFFD"
    ELSE IF bytes[i] = ContByte THEN "UFFFD"
    ELSE bytes[i]

FromUtf8Lossy(bytes) ==
    LET firsts == SelectSeq(Indices(1, Len(bytes)), LAMBDA i : ~CompletesPair(bytes, i))
    IN  [k \in 1..Len(firsts) |-> DecodedAt(bytes, firsts[k])]

-----------------------------------------------------------------------------
(* Literal texts of ai_commands.rs. *)

DataPrefix == <<"d", "a", "t", "a", ":", " ">>
DoneSentinel == <<"d", "a", "t", "a", ":", " ", "[", "D", "O", "N", "E", "]">>
K_choices == <<"c", "h", "o", "i", "c", "e", "s">>
K_delta == <<"d", "e", "l", "t", "a">>
K_content == <<"c", "o", "n", "t", "e", "n", "t">>
K_tool_calls == <<"t", "o", "o", "l", "_", "c", "a", "l", "l", "s">>
K_id == <<"i", "d">>
K_function == <<"f", "u", "n", "c", "t", "i", "o", "n">>
K_name == <<"n", "a", "m", "e">>
K_arguments == <<"a", "r", "g", "u", "m", "e", "n", "t", "s">>
K_finish_reason == <<"f", "i", "n", "i", "s", "h", "_", "r", "e", "a", "s", "o", "n">>
K_index == <<"i", "n", "d", "e", "x">>
V_stop == <<"s", "t", "o", "p">>
L_null == <<"n", "u", "l", "l">>
L_true == <<"t", "r", "u", "e">>
L_false == <<"f", "a", "l", "s", "e">>

-----------------------------------------------------------------------------
(* serde_json::from_str::<Value>.  A Value is <<"null">>, <<"bool", b>>,    *)
(* <<"num", n>>, <<"str", text>>, <<"arr", sequence>> or <<"obj", map>>,    *)
(* a map being a function from key texts to Values (a repeated key keeps    *)
(* its last value).  Numbers are unsigned integers; the escapes \b, \f and  *)
(* \uXXXX, signs, fractions and exponents are outside the alphabet of the   *)
(* model's inputs.                                                          *)

JsonWs == {" ", "\t", "\n", "\r"}
Digits == <<"0", "1", "2", "3", "4", "5", "6", "7", "8", "9">>
EscapeFrom == <<"\"", "\\", "/", "n", "r", "t">>
EscapeTo == <<"\"", "\\", "/", "\n", "\r", "\t">>

JNull == <<"null">>
JBool(b) == <<"bool", b>>
JNum(n) == <<"num", n>>
JStr(s) == <<"str", s>>
JArr(a) == <<"arr", a>>
JObj(m) == <<"obj", m>>

ParseFail == [ok |-> FALSE, v |-> JNull, i |-> 0]
ParseOk(v, i) == [ok |-> TRUE, v |-> v, i |-> i]

EmptyMap == <<>>
MapPut(m, k, v) == [x \in (DOMAIN m) \cup {k} |-> IF x = k THEN v ELSE m[x]]

\* the least element of a set of indices, 0 for the empty set

\* the first index at or after i that holds no whitespace (Len(s) + 1 when none)
SkipWs(s, i) ==
    IF \E j \in i..Len(s) : s[j] \notin JsonWs
    THEN CHOOSE j \in i..Len(s) : s[j] \notin JsonWs /\ \A k \in i..(j - 1) : s[k] \in JsonWs
    ELSE Len(s) + 1

\* the number of backslashes that immediately precede index j, none before lo
BackslashRun(s, lo, j) ==
    IF \A k \in lo..(j - 1) : s[k] = "\\" THEN j - lo
    ELSE j - 1 - (CHOOSE m \in lo..(j - 1) :
                      s[m] # "\\" /\ \A k \in (m + 1)..(j - 1) : s[k] = "\\")

\* TRUE when the character at j follows a backslash that escapes it
Escaped(s, lo, j) == j > lo /\ s[j - 1] = "\\" /\ BackslashRun(s, lo, j) % 2 = 1

\* TRUE for a backslash that escapes the character after it
Introduces(s, lo, p) == s[p] = "\\" /\ ~Escaped(s, lo, p)

\* TRUE when the character at p may stand in a string: a known escape after
\* a backslash, no raw control character otherwise
ValidInString(s, lo, p) ==
    IF Escaped(s, lo, p) THEN Find(EscapeFrom, s[p]) # 0
    ELSE s[p] \notin {"\t", "\n", "\r"}

\* the character the string holds for position p
StringCharAt(s, lo, p) ==
    IF Escaped(s, lo, p) THEN EscapeTo[Find(EscapeFrom, s[p])] ELSE s[p]

\* the index of the quote that closes the string whose text starts at lo, 0 when none
ClosingQuote(s, lo) ==
    IF \E j \in lo..Len(s) : s[j] = "\"" /\ ~Escaped(s, lo, j)
    THEN CHOOSE j \in lo..Len(s) :
             /\ s[j] = "\"" /\ ~Escaped(s, lo, j)
             /\ \A k \in lo..(j - 1) : s[k] # "\"" \/ Escaped(s, lo, k)
    ELSE 0

\* the positions lo..hi of a string's text without the escaping backslashes
TextPositions(s, lo, hi) == SelectSeq(Indices(lo, hi), LAMBDA p : ~Introduces(s, lo, p))

\* the characters of a string's text at the given positions, escapes decoded
DecodeString(s, lo, kept) == [k \in 1..Len(kept) |-> StringCharAt(s, lo, kept[k])]

\* the text of the string that starts at lo and is closed by the quote at e
StringUpTo(s, lo, e) ==
    IF e = 0 THEN ParseFail
    ELSE IF \A p \in lo..(e - 1) : ValidInString(s, lo, p)
    THEN ParseOk(DecodeString(s, lo, TextPositions(s, lo, e - 1)), e + 1)
    ELSE ParseFail

\* the text of a string, lo just after its opening quote: the characters up
\* to the first quote that is not escaped, with the escapes decoded
ParseStringBody(s, lo) == StringUpTo(s, lo, ClosingQuote(s, lo))

\* a parsed text as a string Value
AsJStr(r) == IF r.ok THEN ParseOk(JStr(r.v), r.i) ELSE ParseFail

\* the digits of a number, i at its first digit
RECURSIVE ParseDigits(_, _, _)
ParseDigits(s, i, n) ==
    IF i <= Len(s) /\ Find(Digits, s[i]) # 0
    THEN ParseDigits(s, i + 1, 10 * n + (Find(Digits, s[i]) - 1))
    ELSE ParseOk(JNum(n), i)

ParseNumber(s, i) ==
    IF s[i] = "0"
    THEN IF i + 1 <= Len(s) /\ Find(Digits, s[i + 1]) # 0 THEN ParseFail
         ELSE ParseOk(JNum(0), i + 1)
    ELSE ParseDigits(s, i, 0)

ParseLiteral(s, i, lit, v) ==
    IF SubSeq(s, i, i + Len(lit) - 1) = lit THEN ParseOk(v, i + Len(lit)) ELSE ParseFail

RECURSIVE ParseValue(_, _)
RECURSIVE ParseValueAt(_, _)
RECURSIVE ParseArrayAt(_, _)
RECURSIVE ParseElements(_, _, _)
RECURSIVE AfterElement(_, _, _)
RECURSIVE ElementSep(_, _, _)
RECURSIVE ParseObjectAt(_, _)
RECURSIVE ParseMembers(_, _, _)
RECURSIVE MemberKey(_, _, _)
RECURSIVE MemberColon(_, _, _)
RECURSIVE MemberValue(_, _, _, _)
RECURSIVE AfterMember(_, _, _, _)
RECURSIVE MemberSep(_, _, _)

\* a value, i0 at or before its first character
ParseValue(s, i0) == ParseValueAt(s, SkipWs(s, i0))

\* a value, i at its first character
ParseValueAt(s, i) ==
    IF i > Len(s) THEN ParseFail
    ELSE IF s[i] = "n" THEN ParseLiteral(s, i, L_null, JNull)
    ELSE IF s[i] = "t" THEN ParseLiteral(s, i, L_true, JBool(TRUE))
    ELSE IF s[i] = "f" THEN ParseLiteral(s, i, L_false, JBool(FALSE))
    ELSE IF s[i] = "\"" THEN AsJStr(ParseStringBody(s, i + 1))
    ELSE IF Find(Digits, s[i]) # 0 THEN ParseNumber(s, i)
    ELSE IF s[i] = "[" THEN ParseArrayAt(s, SkipWs(s, i + 1))
    ELSE IF s[i] = "{" THEN ParseObjectAt(s, SkipWs(s, i + 1))
    ELSE ParseFail

\* an array after `[`, j at its first element or at `]`
ParseArrayAt(s, j) ==
    IF j <= Len(s) /\ s[j] = "]" THEN ParseOk(JArr(<<>>), j + 1)
    ELSE ParseElements(s, j, <<>>)

\* the elements of an array, i at the next element
ParseElements(s, i, acc) == AfterElement(s, acc, ParseValue(s, i))

AfterElement(s, acc, r) ==
    IF ~r.ok THEN ParseFail ELSE ElementSep(s, Append(acc, r.v), SkipWs(s, r.i))

\* after an element: a comma and the next element, or `]`
ElementSep(s, acc, j) ==
    IF j > Len(s) THEN ParseFail
    ELSE IF s[j] = "," THEN ParseElements(s, j + 1, acc)
    ELSE IF s[j] = "]" THEN ParseOk(JArr(acc), j + 1)
    ELSE ParseFail

\* an object after `{`, j at its first key or at `}`
ParseObjectAt(s, j) ==
    IF j <= Len(s) /\ s[j] = "}" THEN ParseOk(JObj(EmptyMap), j + 1)
    ELSE ParseMembers(s, j, EmptyMap)

\* the members of an object, i0 at or before the next key
ParseMembers(s, i0, acc) == MemberKey(s, acc, SkipWs(s, i0))

MemberKey(s, acc, i) ==
    IF i > Len(s) \/ s[i] # "\"" THEN ParseFail
    ELSE MemberColon(s, acc, ParseStringBody(s, i + 1))

MemberColon(s, acc, k) ==
    IF ~k.ok THEN ParseFail ELSE MemberValue(s, acc, k.v, SkipWs(s, k.i))

MemberValue(s, acc, key, c) ==
    IF c > Len(s) \/ s[c] # ":" THEN ParseFail
    ELSE AfterMember(s, acc, key, ParseValue(s, c + 1))

AfterMember(s, acc, key, r) ==
    IF ~r.ok THEN ParseFail ELSE MemberSep(s, MapPut(acc, key, r.v), SkipWs(s, r.i))

\* after a member: a comma and the next member, or `}`
MemberSep(s, acc, j) ==
    IF j > Len(s) THEN ParseFail
    ELSE IF s[j] = "," THEN ParseMembers(s, j + 1, acc)
    ELSE IF s[j] = "}" THEN ParseOk(JObj(acc), j + 1)
    ELSE ParseFail

\* Some(value) when only whitespace follows the parsed value
WholeValue(s, r) == IF r.ok /\ SkipWs(s, r.i) > Len(s) THEN Some(r.v) ELSE None

\* serde_json::from_str: Some(value) when the whole text is one JSON value
FromStr(s) == WholeValue(s, ParseValue(s, 1))

\* Value::get(key), Value::as_str, Value::as_array, Value::as_object
Get(v, key) ==
    IF v[1] = "obj" /\ key \in DOMAIN v[2] THEN Some(v[2][key]) ELSE None

AsStr(v) == IF v[1] = "str" THEN Some(v[2]) ELSE None
AsArray(v) == IF v[1] = "arr" THEN Some(v[2]) ELSE None
AsObject(v) == IF v[1] = "obj" THEN Some(v) ELSE None

\* Option::and_then with as_str, as_array, as_object
AndThenStr(o) == IF IsSome(o) THEN AsStr(Unwrap(o)) ELSE None
AndThenArray(o) == IF IsSome(o) THEN AsArray(Unwrap(o)) ELSE None
AndThenObject(o) == IF IsSome(o) THEN AsObject(Unwrap(o)) ELSE None

\* v.get(key).and_then(|v| v.as_str()), and likewise for arrays and objects
StrField(v, key) == AndThenStr(Get(v, key))
ArrayField(v, key) == AndThenArray(Get(v, key))
ObjectField(v, key) == AndThenObject(Get(v, key))

-----------------------------------------------------------------------------
(* ai_chat.rs: AIProvider and AIConfig. *)

N_openai == <<"o", "p", "e", "n", "a", "i">>
N_anthropic == <<"a", "n", "t", "h", "r", "o", "p", "i", "c">>
N_gemini == <<"g", "e", "m", "i", "n", "i">>
N_google == <<"g", "o", "o", "g", "l", "e">>
N_bedrock == <<"b", "e", "d", "r", "o", "c", "k">>
N_groq == <<"g", "r", "o", "q">>
N_deepseek == <<"d", "e", "e", "p", "s", "e", "e", "k">>
N_ollama == <<"o", "l", "l", "a", "m", "a">>
N_cohere == <<"c", "o", "h", "e", "r", "e">>

UrlOpenAI == <<"h", "t", "t", "p", "s", ":", "/", "/", "a", "p", "i", ".", "o", "p", "e", "n", "a", "i", ".", "c", "o", "m", "/", "v", "1">>
UrlAnthropic == <<"h", "t", "t", "p", "s", ":", "/", "/", "a", "p", "i", ".", "a", "n", "t", "h", "r", "o", "p", "i", "c", ".", "c", "o", "m", "/", "v", "1">>
UrlDeepSeek == <<"h", "t", "t", "p", "s", ":", "/", "/", "a", "p", "i", ".", "d", "e", "e", "p", "s", "e", "e", "k", ".", "c", "o", "m", "/", "v", "1">>
ChatCompletionsPath == <<"/", "c", "h", "a", "t", "/", "c", "o", "m", "p", "l", "e", "t", "i", "o", "n", "s">>


\* AIProvider::from_string: Some(provider), or None for "Unknown provider"
ProviderFromString(s) ==
    LET l == ToLowercase(s)
    IN  IF l = N_openai THEN Some("OpenAI")
        ELSE IF l = N_anthropic THEN Some("Anthropic")
        ELSE IF l = N_gemini \/ l = N_google THEN Some("Gemini")
        ELSE IF l = N_bedrock THEN Some("Bedrock")
        ELSE IF l = N_groq THEN Some("Groq")
        ELSE IF l = N_deepseek THEN Some("DeepSeek")
        ELSE IF l = N_ollama THEN Some("Ollama")
        ELSE IF l = N_cohere THEN Some("Cohere")
        ELSE None

\* the names of the environment variables read at request time
EnvNames ==
    {"ACCESS_CODE_LIST", "AI_PROVIDER", "AI_MODEL",
     "OPENAI_API_KEY", "ANTHROPIC_API_KEY", "GEMINI_API_KEY", "GOOGLE_GENERATIVE_AI_API_KEY",
     "GROQ_API_KEY", "DEEPSEEK_API_KEY", "COHERE_API_KEY",
     "OPENAI_BASE_URL", "ANTHROPIC_BASE_URL", "DEEPSEEK_BASE_URL", "OLLAMA_BASE_URL"}

\* env::var(name).ok()
EnvVar(e, name) == e[name]

\* the credential looked up for a provider when there is no override
EnvApiKey(e, provider) ==
    CASE provider = "OpenAI" -> EnvVar(e, "OPENAI_API_KEY")
      [] provider = "Anthropic" -> EnvVar(e, "ANTHROPIC_API_KEY")
      [] provider = "Gemini" ->
            OrElse(EnvVar(e, "GEMINI_API_KEY"), EnvVar(e, "GOOGLE_GENERATIVE_AI_API_KEY"))
      [] provider = "Groq" -> EnvVar(e, "GROQ_API_KEY")
      [] provider = "DeepSeek" -> EnvVar(e, "DEEPSEEK_API_KEY")
      [] provider = "Cohere" -> EnvVar(e, "COHERE_API_KEY")
      [] provider \in {"Bedrock", "Ollama"} -> None

\* the base URL looked up for a provider when there is no override
EnvBaseUrl(e, provider) ==
    CASE provider = "OpenAI" -> EnvVar(e, "OPENAI_BASE_URL")
      [] provider = "Anthropic" -> EnvVar(e, "ANTHROPIC_BASE_URL")
      [] provider = "DeepSeek" -> EnvVar(e, "DEEPSEEK_BASE_URL")
      [] provider = "Ollama" -> EnvVar(e, "OLLAMA_BASE_URL")
      [] OTHER -> None

ConfigErr(kind) ==
    [ok |-> FALSE, err |-> kind, provider |-> "", model_id |-> <<>>,
     api_key |-> None, base_url |-> None]

\* ResolvedConfig failing when no credential is found
ResolvedConfig_key_required(e, provider, model_id, api_key_override, base_url_override) ==
    IF ~IsSome(OrElse(api_key_override, EnvApiKey(e, provider)))
    THEN ConfigErr("ApiKeyNotConfigured")
    ELSE [ok |-> TRUE, err |-> "", provider |-> provider, model_id |-> model_id,
          api_key |-> OrElse(api_key_override, EnvApiKey(e, provider)),
          base_url |-> OrElse(base_url_override, EnvBaseUrl(e, provider))]

\* ResolvedConfig with the environment consulted before the overrides
ResolvedConfig_env_first(e, provider, model_id, api_key_override, base_url_override) ==
    [ok |-> TRUE, err |-> "", provider |-> provider, model_id |-> model_id,
     api_key |-> OrElse(EnvApiKey(e, provider), api_key_override),
     base_url |-> OrElse(EnvBaseUrl(e, provider), base_url_override)]

\* the resolved configuration, once provider and model are known
ResolvedConfig(e, provider, model_id, api_key_override, base_url_override) ==
    [ok |-> TRUE, err |-> "", provider |-> provider, model_id |-> model_id,
     api_key |-> OrElse(api_key_override, EnvApiKey(e, provider)),
     base_url |-> OrElse(base_url_override, EnvBaseUrl(e, provider))]

\* the model: override, else AI_MODEL, else an error
ResolveModel(e, provider, model_id, api_key_override, base_url_override) ==
    IF ~IsSome(model_id) THEN ConfigErr("ModelNotConfigured")
    ELSE ResolvedConfig(e, provider, Unwrap(model_id), api_key_override, base_url_override)

\* the provider parsed from its name, else an error
ResolveProvider(e, provider, model_override, api_key_override, base_url_override) ==
    IF ~IsSome(provider) THEN ConfigErr("UnknownProvider")
    ELSE ResolveModel(e, Unwrap(provider), OrElse(model_override, EnvVar(e, "AI_MODEL")),
                      api_key_override, base_url_override)

\* the provider name: override, else AI_PROVIDER, else an error
ResolveProviderName(e, provider_str, model_override, api_key_override, base_url_override) ==
    IF ~IsSome(provider_str) THEN ConfigErr("ProviderNotConfigured")
    ELSE ResolveProvider(e, ProviderFromString(Unwrap(provider_str)), model_override,
                         api_key_override, base_url_override)

\* AIConfig::from_env_and_overrides
FromEnvAndOverrides(e, provider_override, model_override, api_key_override, base_url_override) ==
    ResolveProviderName(e, OrElse(provider_override, EnvVar(e, "AI_PROVIDER")), model_override,
                        api_key_override, base_url_override)

\* the default base URL of chat_stream for a provider without a configured one
DefaultBaseUrl(provider) ==
    CASE provider = "OpenAI" -> UrlOpenAI
      [] provider = "Anthropic" -> UrlAnthropic
      [] provider = "DeepSeek" -> UrlDeepSeek
      [] OTHER -> UrlOpenAI

\* env::set_var(name, value) when value is Some
SetVar(e, name, value) == IF IsSome(value) THEN [e EXCEPT ![name] = value] ELSE e

\* create_client: the environment after it has written the credential of the
\* configuration, and for OpenAI the base URL, into the provider's variables.
\* No command calls create_client: chat_stream builds its client with
\* Client::new() and sends the credential in the request.
CreateClient(e, config) ==
    CASE config.provider = "OpenAI" ->
            SetVar(SetVar(e, "OPENAI_API_KEY", config.api_key),
                   "OPENAI_BASE_URL", config.base_url)
      [] config.provider = "Anthropic" -> SetVar(e, "ANTHROPIC_API_KEY", config.api_key)
      [] config.provider = "Gemini" -> SetVar(e, "GEMINI_API_KEY", config.api_key)
      [] config.provider = "DeepSeek" -> SetVar(e, "DEEPSEEK_API_KEY", config.api_key)
      [] config.provider = "Groq" -> SetVar(e, "GROQ_API_KEY", config.api_key)
      [] OTHER -> e

-----------------------------------------------------------------------------
(* ai_commands.rs, chat_stream: the steps before the first await. *)

\* the pieces of a list, each trimmed
TrimAll(pieces) == [i \in 1..Len(pieces) |-> Trim(pieces[i])]

\* AccessCodes with the trim of line 97 left out
AccessCodes_untrimmed(access_codes_str) == NonEmpty(Split(access_codes_str, ","))

\* the allow-list parsed from ACCESS_CODE_LIST
AccessCodes(access_codes_str) == NonEmpty(TrimAll(Split(access_codes_str, ",")))

\* Option<String>::unwrap_or_default
UnwrapOrDefault(o) == IF IsSome(o) THEN Unwrap(o) ELSE <<>>

\* the check of a provided code against a parsed allow-list
CodeAccepted(access_codes, provided_code) ==
    access_codes # <<>> => provided_code \in Range(access_codes)

\* the access-code check: TRUE when the request passes the gate
AccessGranted(e, access_code) ==
    IF IsSome(EnvVar(e, "ACCESS_CODE_LIST"))
    THEN CodeAccepted(AccessCodes(Unwrap(EnvVar(e, "ACCESS_CODE_LIST"))),
                      UnwrapOrDefault(access_code))
    ELSE TRUE

PreflightErr(kind) == [ok |-> FALSE, err |-> kind, api_key |-> <<>>, url |-> <<>>, model |-> <<>>]

\* the base URL of the request: the configured one, else the provider's default
BaseUrl(config) ==
    IF IsSome(config.base_url) THEN Unwrap(config.base_url) ELSE DefaultBaseUrl(config.provider)

\* WithConfig with the credential defaulted instead of required
WithConfig_key_defaulted(config) ==
    IF ~config.ok THEN PreflightErr(config.err)
    ELSE [ok |-> TRUE, err |-> "", api_key |-> UnwrapOrDefault(config.api_key),
          url |-> BaseUrl(config) \o ChatCompletionsPath, model |-> config.model_id]

\* the credential check on the resolved configuration, and the request to send
WithConfig(config) ==
    IF ~config.ok THEN PreflightErr(config.err)
    ELSE IF ~IsSome(config.api_key) THEN PreflightErr("ApiKeyNotConfigured")
    ELSE [ok |-> TRUE, err |-> "", api_key |-> Unwrap(config.api_key),
          url |-> BaseUrl(config) \o ChatCompletionsPath, model |-> config.model_id]

\* what the steps before the Start event decide: an error kind, or the
\* credential, URL and model of the request to send
Preflight(e, r) ==
    IF ~r.payload_ok THEN PreflightErr("InvalidRequest")
    ELSE IF ~AccessGranted(e, r.access_code) THEN PreflightErr("AccessDenied")
    ELSE WithConfig(FromEnvAndOverrides(e, r.provider_override, r.model_override,
                                        r.api_key_override, r.base_url_override))

-----------------------------------------------------------------------------
(* Messages: UIMessage and MessagePart (ai_chat.rs), their normalisation   *)
(* by convert_ui_messages_to_genai (ai_chat.rs) and by chat_stream          *)
(* (ai_commands.rs), and the messages array of the outbound request.        *)
(* A UIMessage is [role |-> text, parts |-> sequence of parts]; a part is   *)
(* a tuple whose first element is its variant.  The backtick is written     *)
(* "U0060".                                                                 *)

PartText(text) == <<"text", text>>
PartFile(url) == <<"file", url>>

UIMessage(role, parts) == [role |-> role, parts |-> parts]

R_user == <<"u", "s", "e", "r">>
R_assistant == <<"a", "s", "s", "i", "s", "t", "a", "n", "t">>
R_system == <<"s", "y", "s", "t", "e", "m">>

L_previous_open == <<"P", "r", "e", "v", "i", "o", "u", "s", " ", "d", "i", "a", "g", "r", "a", "m", " ", "X", "M", "L", ":", "\n", "U0060", "U0060", "U0060", "x", "m", "l", "\n">>
L_previous_close == <<"\n", "U0060", "U0060", "U0060", "\n", "\n">>
L_current_open == <<"C", "u", "r", "r", "e", "n", "t", " ", "d", "i", "a", "g", "r", "a", "m", " ", "X", "M", "L", ":", "\n", "U0060", "U0060", "U0060", "x", "m", "l", "\n">>
L_current_close == <<"\n", "U0060", "U0060", "U0060">>

\* the two literals of get_system_prompt, each standing as one symbol
BasePrompt == <<"BASE_PROMPT">>
MinimalStyleHeader == <<"MINIMAL_STYLE_HEADER">>

\* [String]::join: the texts in order, sep between neighbours
RECURSIVE Join(_, _)
Join(texts, sep) ==
    IF texts = <<>> THEN <<>>
    ELSE IF Len(texts) = 1 THEN texts[1]
    ELSE texts[1] \o sep \o Join(Tail(texts), sep)

\* TextParts taking the second field of every part for a text
TextParts_every_part(parts) == [i \in 1..Len(parts) |-> parts[i][2]]

\* the filter_map over the parts: the texts of the Text parts, in order
TextParts(parts) ==
    [i \in 1..Len(SelectSeq(parts, LAMBDA p : p[1] = "text")) |->
        SelectSeq(parts, LAMBDA p : p[1] = "text")[i][2]]

\* the content of a message with a space between its Text parts
MessageContent_spaces(parts) == Join(TextParts(parts), <<" ">>)

\* the content of a message: its Text parts joined with a newline
MessageContent(parts) == Join(TextParts(parts), <<"\n">>)

\* ChatMessage::user, ::assistant, ::system
ChatMessage(role, content) == [role |-> role, content |-> content]

\* the positions of the messages whose role convert_ui_messages_to_genai rejects
UnknownRoles(ui_messages) ==
    {i \in 1..Len(ui_messages) : ui_messages[i].role \notin {R_user, R_assistant, R_system}}

\* convert_ui_messages_to_genai: the messages in order, or the error of the
\* first message whose role is not known
ConvertUiMessagesToGenai(ui_messages) ==
    IF UnknownRoles(ui_messages) # {}
    THEN [ok |-> FALSE,
          err |-> <<"UnknownRole",
                    ui_messages[CHOOSE i \in UnknownRoles(ui_messages) :
                                    \A j \in UnknownRoles(ui_messages) : i <= j].role>>,
          messages |-> <<>>]
    ELSE [ok |-> TRUE, err |-> <<>>,
          messages |-> [i \in 1..Len(ui_messages) |->
                            ChatMessage(ui_messages[i].role,
                                        MessageContent(ui_messages[i].parts))]]

\* get_system_prompt
GetSystemPrompt(model_id, minimal_style) ==
    IF minimal_style THEN MinimalStyleHeader \o BasePrompt ELSE BasePrompt

\* chat_stream: the diagram context, empty unless the payload has xml
XmlContext(xml, previous_xml) ==
    IF IsSome(xml)
    THEN (IF IsSome(previous_xml)
          THEN L_previous_open \o Unwrap(previous_xml) \o L_previous_close
          ELSE <<>>)
         \o L_current_open \o Unwrap(xml) \o L_current_close
    ELSE <<>>

\* chat_stream: one outbound message per request message, whatever its role
LoopMessages(ui_messages) ==
    [i \in 1..Len(ui_messages) |->
        [role |-> ui_messages[i].role, content |-> MessageContent(ui_messages[i].parts)]]

\* chat_stream: the messages array of the request body
OutboundMessages(r, model_id) ==
    <<[role |-> R_system,
       content |-> GetSystemPrompt(model_id, IF IsSome(r.minimal_style)
                                             THEN Unwrap(r.minimal_style) ELSE FALSE)]>>
    \o (IF XmlContext(r.xml, r.previous_xml) # <<>>
        THEN <<[role |-> R_system, content |-> XmlContext(r.xml, r.previous_xml)]>>
        ELSE <<>>)
    \o LoopMessages(r.messages)

-----------------------------------------------------------------------------
(* StreamEvent (ai_chat.rs). *)

EvStart == <<"Start">>
EvTextDelta(delta) == <<"TextDelta", delta>>
EvToolCallStart(id, name) == <<"ToolCallStart", id, name>>
EvToolInputDelta(id, delta) == <<"ToolInputDelta", id, delta>>
EvToolInputComplete(id, name, input) == <<"ToolInputComplete", id, name, input>>
EvFinish(usage) == <<"Finish", usage>>
EvError(error) == <<"Error", error>>

Kind(ev) == ev[1]

-----------------------------------------------------------------------------
(* ai_commands.rs, chat_stream: what one SSE line does.  A step result is   *)
(* [evs |-> events emitted, map |-> tool_call_args afterwards].             *)

NoStep(map) == [evs |-> <<>>, map |-> map]

\* DeclareName with insert in place of entry().or_insert()
DeclareName_overwrite(st, id, name) ==
    [evs |-> Append(st.evs, EvToolCallStart(id, name)),
     map |-> MapPut(st.map, id, <<name, <<>>>>)]

\* the name part of one tool_calls entry: the entry is inserted unless its id
\* is already present, and ToolCallStart is emitted
DeclareName(st, id, name) ==
    [evs |-> Append(st.evs, EvToolCallStart(id, name)),
     map |-> IF id \in DOMAIN st.map THEN st.map ELSE MapPut(st.map, id, <<name, <<>>>>)]

\* AppendArguments with the fragment put in front of the accumulated text
AppendArguments_prepend(st, id, args) ==
    [evs |-> Append(st.evs, EvToolInputDelta(id, args)),
     map |-> IF id \in DOMAIN st.map
             THEN [st.map EXCEPT ![id] = <<st.map[id][1], args \o st.map[id][2]>>]
             ELSE st.map]

\* the arguments part of one tool_calls entry: the fragment is appended to the
\* entry of the id when there is one, and ToolInputDelta is emitted
AppendArguments(st, id, args) ==
    [evs |-> Append(st.evs, EvToolInputDelta(id, args)),
     map |-> IF id \in DOMAIN st.map
             THEN [st.map EXCEPT ![id] = <<st.map[id][1], st.map[id][2] \o args>>]
             ELSE st.map]

WithName(st, id, name) == IF IsSome(name) THEN DeclareName(st, id, Unwrap(name)) ELSE st
WithArguments(st, id, args) == IF IsSome(args) THEN AppendArguments(st, id, Unwrap(args)) ELSE st

\* a tool_calls entry with an id and a function object: name, then arguments
ToolCallFunction(st, id, function) ==
    WithArguments(WithName(st, id, StrField(function, K_name)), id,
                  StrField(function, K_arguments))

\* ToolCallParts giving an entry without id the id of the only call known
ToolCallParts_only_call(st, id, function) ==
    IF ~IsSome(function) THEN st
    ELSE IF IsSome(id) THEN ToolCallFunction(st, Unwrap(id), Unwrap(function))
    ELSE IF Cardinality(DOMAIN st.map) = 1
    THEN ToolCallFunction(st, CHOOSE i \in DOMAIN st.map : TRUE, Unwrap(function))
    ELSE st

ToolCallParts(st, id, function) ==
    IF ~IsSome(id) \/ ~IsSome(function) THEN st
    ELSE ToolCallFunction(st, Unwrap(id), Unwrap(function))

\* one element of delta.tool_calls
ToolCallStep(st, tool_call) ==
    ToolCallParts(st, StrField(tool_call, K_id), ObjectField(tool_call, K_function))

RECURSIVE ToolCallsSteps(_, _)
ToolCallsSteps(st, tool_calls) ==
    IF tool_calls = <<>> THEN st
    ELSE ToolCallsSteps(ToolCallStep(st, Head(tool_calls)), Tail(tool_calls))

\* ContentStep without the emptiness test of line 232
ContentStep_keep_empty(st, content) ==
    IF IsSome(content)
    THEN [st EXCEPT !.evs = Append(@, EvTextDelta(Unwrap(content)))]
    ELSE st

\* delta.content: a TextDelta when it is a string that is not empty
ContentStep(st, content) ==
    IF IsSome(content) /\ Unwrap(content) # <<>>
    THEN [st EXCEPT !.evs = Append(@, EvTextDelta(Unwrap(content)))]
    ELSE st

\* delta.tool_calls, when it is an array
ToolCallsField(st, tool_calls) ==
    IF IsSome(tool_calls) THEN ToolCallsSteps(st, Unwrap(tool_calls)) ELSE st

\* the delta object of choices[0]: text content, then tool calls
DeltaStep(st, delta) ==
    ToolCallsField(ContentStep(st, StrField(delta, K_content)), ArrayField(delta, K_tool_calls))

\* IsStopReason accepting every finish_reason that is a string
IsStopReason_any(finish_reason) == IsSome(finish_reason)

IsStopReason(finish_reason) ==
    IsSome(finish_reason)
    /\ (Unwrap(finish_reason) = V_stop \/ Unwrap(finish_reason) = K_tool_calls)

\* the finish check of choices[0]
IsFinishSignal(choice) == IsStopReason(StrField(choice, K_finish_reason))

\* Vec::first
First(choices) ==
    IF IsSome(choices) /\ Unwrap(choices) # <<>> THEN Some(Unwrap(choices)[1]) ELSE None

\* choices[0] of a parsed line, when there is one
FirstChoice(json_data) ==
    IF IsSome(json_data) THEN First(ArrayField(Unwrap(json_data), K_choices)) ELSE None

\* the text after `data: `, parsed, when the line has the prefix
DataPayload(data) == IF IsSome(data) THEN FromStr(Unwrap(data)) ELSE None

\* LinePayload taking `data:` without the space for the prefix
LinePayload_loose_prefix(line) ==
    IF line = <<>> \/ line = DoneSentinel THEN None
    ELSE DataPayload(StripPrefix(line, SubSeq(DataPrefix, 1, Len(DataPrefix) - 1)))

\* the parsed payload of a trimmed line: None for a line that is skipped
LinePayload(line) ==
    IF line = <<>> \/ line = DoneSentinel THEN None
    ELSE DataPayload(StripPrefix(line, DataPrefix))

\* choices[0] of a trimmed line, when the line has one
LineChoice(line) == FirstChoice(LinePayload(line))

DeltaField(delta, map) == IF IsSome(delta) THEN DeltaStep(NoStep(map), Unwrap(delta)) ELSE NoStep(map)

\* the events of choices[0] before the finish check, and the map after them
ChoiceStep(choice, map) ==
    IF IsSome(choice) THEN DeltaField(ObjectField(Unwrap(choice), K_delta), map) ELSE NoStep(map)

\* TRUE when choices[0] carries a finish signal (stop or tool_calls)
ChoiceFinishes(choice) == IsSome(choice) /\ IsFinishSignal(Unwrap(choice))



\* the ids of the map whose accumulated arguments parse as JSON
Completable(map) == {id \in DOMAIN map : IsSome(FromStr(map[id][2]))}

\* the orders in which a HashMap may iterate over a set of keys
Orders(S) ==
    {f \in [1..Cardinality(S) -> S] : \A i, j \in 1..Cardinality(S) : f[i] = f[j] => i = j}

\* the ToolInputComplete event of an entry whose arguments parse
CompleteEvent(map, id) == EvToolInputComplete(id, map[id][1], Unwrap(FromStr(map[id][2])))

\* the ToolInputComplete batches the finish check may emit: one event per
\* entry whose arguments parse, in the iteration order of the map
CompleteBatches(map) ==
    {[i \in 1..Len(order) |-> CompleteEvent(map, order[i])] : order \in Orders(Completable(map))}

\* FinishCheck giving up the whole batch when one entry does not parse
FinishCheck_all_or_nothing(st, finishes) ==
    {[evs |-> st.evs \o batch, map |-> st.map] :
        batch \in IF finishes /\ Completable(st.map) = DOMAIN st.map
                  THEN CompleteBatches(st.map) ELSE {<<>>}}

\* the finish check after the delta of a line: the batch is emitted when the
\* line carries a finish signal
FinishCheck(st, finishes) ==
    {[evs |-> st.evs \o batch, map |-> st.map] :
        batch \in IF finishes THEN CompleteBatches(st.map) ELSE {<<>>}}

\* what choices[0] of a line may do: its events and the map afterwards
ChoiceOutcomes(choice, map) == FinishCheck(ChoiceStep(choice, map), ChoiceFinishes(choice))

\* LineOutcomes taking the termination sentinel for a finish signal
LineOutcomes_done_finishes(line, map) ==
    IF line = DoneSentinel THEN FinishCheck(NoStep(map), TRUE)
    ELSE ChoiceOutcomes(LineChoice(line), map)

\* what a trimmed line may do: its events and the map afterwards
LineOutcomes(line, map) == ChoiceOutcomes(LineChoice(line), map)

-----------------------------------------------------------------------------
(* The provider's side of the response stream: the lines it sends, their   *)
(* JSON text and the bytes on the wire.  A line is described by what the    *)
(* provider means to send (a script line); the gateway sees only the bytes. *)

\* one entry of delta.tool_calls: optional id, name and arguments fragment
Tc(id, name, args) == [id |-> id, name |-> name, args |-> args]

\* a `data: {json}` line: optional content, tool-call entries, optional finish_reason
DataLine(content, tools, finish) ==
    [t |-> "data", text |-> <<>>, content |-> content, tools |-> tools, finish |-> finish]

\* a line sent as the given text
RawLine(text) ==
    [t |-> "raw", text |-> text, content |-> None, tools |-> <<>>, finish |-> None]

EscapeChar(c) ==
    IF c \in {"\"", "\\", "\n", "\r", "\t"} THEN <<"\\", EscapeFrom[Find(EscapeTo, c)]>> ELSE <<c>>

\* the characters of a text, each escaped, by halves
RECURSIVE EscapeText(_)
EscapeText(s) ==
    IF s = <<>> THEN <<>>
    ELSE IF Len(s) = 1 THEN EscapeChar(s[1])
    ELSE EscapeText(SubSeq(s, 1, Len(s) \div 2)) \o EscapeText(SubSeq(s, Len(s) \div 2 + 1, Len(s)))

SerString(s) == <<"\"">> \o EscapeText(s) \o <<"\"">>

RECURSIVE SerNumber(_)
SerNumber(n) == IF n < 10 THEN <<Digits[n + 1]>> ELSE SerNumber(n \div 10) \o <<Digits[(n % 10) + 1]>>

RECURSIVE Ser(_)
RECURSIVE SerElements(_)
RECURSIVE SerMembers(_, _)

\* the JSON text of a Value, without insignificant whitespace
Ser(v) ==
    CASE v[1] = "null" -> L_null
      [] v[1] = "bool" -> IF v[2] THEN L_true ELSE L_false
      [] v[1] = "num" -> SerNumber(v[2])
      [] v[1] = "str" -> SerString(v[2])
      [] v[1] = "arr" -> <<"[">> \o SerElements(v[2]) \o <<"]">>
      [] v[1] = "obj" -> <<"{">> \o SerMembers(v[2], DOMAIN v[2]) \o <<"}">>

SerElements(a) ==
    IF a = <<>> THEN <<>>
    ELSE Ser(Head(a)) \o (IF Len(a) > 1 THEN <<",">> ELSE <<>>) \o SerElements(Tail(a))

SerMembers(m, keys) ==
    IF keys = {} THEN <<>>
    ELSE LET k == CHOOSE x \in keys : TRUE
         IN  SerString(k) \o <<":">> \o Ser(m[k])
             \o (IF keys # {k} THEN <<",">> ELSE <<>>) \o SerMembers(m, keys \ {k})

PutIfSome(m, k, o) == IF IsSome(o) THEN MapPut(m, k, JStr(Unwrap(o))) ELSE m

\* the JSON value of one tool_calls entry
TcValue(tc, index) ==
    JObj(PutIfSome(MapPut(MapPut(EmptyMap, K_index, JNum(index)),
                          K_function,
                          JObj(PutIfSome(PutIfSome(EmptyMap, K_name, tc.name),
                                         K_arguments, tc.args))),
                   K_id, tc.id))

\* the JSON value of a data line: {"choices":[{"delta":{..},"finish_reason":..}]}
LineValue(l) ==
    LET d0 == PutIfSome(EmptyMap, K_content, l.content)
        d1 == IF l.tools = <<>> THEN d0
              ELSE MapPut(d0, K_tool_calls,
                          JArr([i \in 1..Len(l.tools) |-> TcValue(l.tools[i], i - 1)]))
        choice == JObj(MapPut(MapPut(EmptyMap, K_delta, JObj(d1)),
                              K_finish_reason,
                              IF IsSome(l.finish) THEN JStr(Unwrap(l.finish)) ELSE JNull))
    IN  JObj(MapPut(EmptyMap, K_choices, JArr(<<choice>>)))

\* the text of a script line, without its newline
RenderLine(l) == IF l.t = "raw" THEN l.text ELSE DataPrefix \o Ser(LineValue(l))

\* the UTF-8 bytes of a text, by halves
RECURSIVE Utf8Encode(_)
Utf8Encode(s) ==
    IF s = <<>> THEN <<>>
    ELSE IF Len(s) = 1 THEN (IF s[1] = "U00E9" THEN <<LeadByte, ContByte>> ELSE s)
    ELSE Utf8Encode(SubSeq(s, 1, Len(s) \div 2)) \o Utf8Encode(SubSeq(s, Len(s) \div 2 + 1, Len(s)))

\* the bytes of a response body: every line followed by a newline
RECURSIVE RenderBody(_)
RenderBody(sc) ==
    IF sc = <<>> THEN <<>>
    ELSE Utf8Encode(RenderLine(Head(sc))) \o <<"\n">> \o RenderBody(Tail(sc))

\* all sequences of length 1..n over a set
RECURSIVE SeqsUpTo(_, _)
SeqsUpTo(S, n) ==
    IF n = 0 THEN {<<>>}
    ELSE LET shorter == SeqsUpTo(S, n - 1)
         IN  shorter \cup {Append(s, x) : s \in shorter, x \in S}


-----------------------------------------------------------------------------
(* Inputs: the texts, environments, requests and response scripts the      *)
(* model draws from.                                                        *)

T_c1 == <<"c", "1">>
T_c2 == <<"c", "2">>
T_display_diagram == <<"d", "i", "s", "p", "l", "a", "y", "_", "d", "i", "a", "g", "r", "a", "m">>
T_edit_diagram == <<"e", "d", "i", "t", "_", "d", "i", "a", "g", "r", "a", "m">>
T_xml == <<"x", "m", "l">>
T_root == <<"<", "r", "o", "o", "t", "/", ">">>
T_operations == <<"o", "p", "e", "r", "a", "t", "i", "o", "n", "s">>
T_Hello == <<"H", "e", "l", "l", "o">>
T_world == <<" ", "w", "o", "r", "l", "d">>
T_cafe == <<"c", "a", "f", "U00E9">>
T_m0 == <<"m", "0">>
T_m1 == <<"m", "1">>
T_k0 == <<"k", "0">>
T_k1 == <<"k", "1">>
T_k2 == <<"k", "2">>
T_u1 == <<"h", "t", "t", "p", ":", "/", "/", "u", "1">>
T_A1 == <<"A", "1">>
T_B2 == <<"B", "2">>
T_x == <<"x">>
T_bad_json ==
    <<"d", "a", "t", "a", ":", " ", "{", "\"", "c", "h", "o", "i", "c", "e", "s", "\"", ":",
      "[", "{", "\"", "d", "e", "l", "t", "a", "\"", ":">>
T_no_choices ==
    <<"d", "a", "t", "a", ":", " ", "{", "\"", "i", "d", "\"", ":", "\"", "x", "\"", "}">>
T_no_delta ==
    <<"d", "a", "t", "a", ":", " ", "{", "\"", "c", "h", "o", "i", "c", "e", "s", "\"", ":",
      "[", "{", "\"", "i", "n", "d", "e", "x", "\"", ":", "0", "}", "]", "}">>
T_no_delta_finish ==
    <<"d", "a", "t", "a", ":", " ", "{", "\"", "c", "h", "o", "i", "c", "e", "s", "\"", ":",
      "[", "{", "\"", "f", "i", "n", "i", "s", "h", "_", "r", "e", "a", "s", "o", "n", "\"",
      ":", "\"", "s", "t", "o", "p", "\"", "}", "]", "}">>
T_no_prefix ==
    <<"d", "a", "t", "a", ":", "{", "\"", "c", "h", "o", "i", "c", "e", "s", "\"", ":", "[",
      "{", "\"", "d", "e", "l", "t", "a", "\"", ":", "{", "\"", "c", "o", "n", "t", "e", "n",
      "t", "\"", ":", "\"", "H", "e", "l", "l", "o", "\"", "}", "}", "]", "}">>
T_length == <<"l", "e", "n", "g", "t", "h">>
T_finish_null ==
    <<"d", "a", "t", "a", ":", " ", "{", "\"", "c", "h", "o", "i", "c", "e", "s", "\"", ":",
      "[", "{", "\"", "d", "e", "l", "t", "a", "\"", ":", "{", "}", ",", "\"", "f", "i", "n",
      "i", "s", "h", "_", "r", "e", "a", "s", "o", "n", "\"", ":", "n", "u", "l", "l", "}",
      "]", "}">>
T_xml0 == <<"<", "a", "/", ">">>
T_xml1 == <<"<", "b", "/", ">">>
T_sp_B2 == <<" ", "B", "2">>
T_list_A1_B2 == <<"A", "1", ",", " ", "B", "2">>
T_list_B2_comma == <<"B", "2", ",">>
T_list_blank == <<" ", ",", " ">>
T_OpenAI == <<"O", "p", "e", "n", "A", "I">>
T_GOOGLE == <<"G", "O", "O", "G", "L", "E">>
T_Ollama == <<"O", "l", "l", "a", "m", "a">>
T_bogus == <<"b", "o", "g", "u", "s">>
Frag1 == <<"{", "\"", "x", "m", "l", "\"", ":">>
Frag2 == <<"\"", "<", "r", "o", "o", "t", "/", ">", "\"", "}">>
ArgText2 == <<"{", " ", "\"", "o", "p", "e", "r", "a", "t", "i", "o", "n", "s", "\"", ":", " ", "[", "]", " ", "}">>

\* the parsed arguments of the two tool calls of the scripts
ArgValue1 == JObj(MapPut(EmptyMap, T_xml, JStr(T_root)))
ArgValue2 == JObj(MapPut(EmptyMap, T_operations, JArr(<<>>)))

\* the longest response script, in lines, of each scenario
MaxLines == 4
MaxSkipLines == 3
MaxChunkLines == 2
\* how many emit calls may fail in a run
MaxLost == 1
\* how many parts a message of the request may have
MaxParts == 2
\* the longest response script of the scenario that declares a name twice
MaxRedeclLines == 3
\* the longest response script of the scenario of finish reasons
MaxFinishLines == 3
\* the longest response script of the scenario of lines that do not decode
MaxAnomalyLines == 3
\* the longest response script of the scenario of unterminated last lines
MaxTailLines == 3
\* the longest response script of the scenario of two invocations on a window
MaxWindowLines == 2
\* the longest response script of the scenario of tool calls without id
MaxNoIdLines == 3
\* how many other invocations resolve their configuration during a run
MaxPeers == 2
\* the longest response script of the scenario whose emit calls may fail
MaxLossyLines == 3

Scenarios == {"gate", "config", "resolve", "msgs", "lossy", "shared", "window", "redecl", "finish", "anomaly", "tail", "noid", "text", "tool", "skip", "chunk"}

\* script lines
ToolStartC1 == DataLine(None, <<Tc(Some(T_c1), Some(T_display_diagram), None)>>, None)
ToolFrag1 == DataLine(None, <<Tc(Some(T_c1), None, Some(Frag1))>>, None)
ToolFrag2 == DataLine(None, <<Tc(Some(T_c1), None, Some(Frag2))>>, None)
ToolWholeC2 == DataLine(None, <<Tc(Some(T_c2), Some(T_edit_diagram), Some(ArgText2))>>, None)
ToolStartFrag1 == DataLine(None, <<Tc(Some(T_c1), Some(T_display_diagram), Some(Frag1))>>, None)
ToolRedeclare == DataLine(None, <<Tc(Some(T_c1), Some(T_edit_diagram), None)>>, None)
ToolRedeclareFrag2 == DataLine(None, <<Tc(Some(T_c1), Some(T_edit_diagram), Some(Frag2))>>, None)
NoIdFrag2 == DataLine(None, <<Tc(None, None, Some(Frag2))>>, None)
NoIdWhole == DataLine(None, <<Tc(None, Some(T_edit_diagram), Some(ArgText2))>>, None)
FinishLength == DataLine(None, <<>>, Some(T_length))
FinishNull == RawLine(T_finish_null)
BadJson == RawLine(T_bad_json)
NoChoices == RawLine(T_no_choices)
NoDelta == RawLine(T_no_delta)
NoDeltaFinish == RawLine(T_no_delta_finish)
NoPrefix == RawLine(T_no_prefix)
FinishToolCalls == DataLine(None, <<>>, Some(K_tool_calls))
FinishStop == DataLine(None, <<>>, Some(V_stop))
TextHello == DataLine(Some(T_Hello), <<>>, None)
TextWorld == DataLine(Some(T_world), <<>>, None)
TextEmpty == DataLine(Some(<<>>), <<>>, None)
TextCafe == DataLine(Some(T_cafe), <<>>, None)
EmptyLine == RawLine(<<>>)
BlankLine == RawLine(<<" ", "\r">>)
DoneLine == RawLine(DoneSentinel)
DoneLineCr == RawLine(DoneSentinel \o <<"\r">>)

\* the lines a script of a scenario is made of
Menu(s) ==
    CASE s = "tool" -> {ToolStartC1, ToolFrag1, ToolFrag2, ToolWholeC2, FinishToolCalls}
      [] s = "skip" -> {ToolWholeC2, FinishToolCalls, EmptyLine, BlankLine, DoneLine, DoneLineCr}
      [] s = "text" -> {TextHello, TextWorld, TextEmpty, FinishStop, BlankLine, DoneLine}
      [] s = "chunk" -> {TextCafe, ToolWholeC2, FinishToolCalls}
      [] s = "lossy" -> {TextHello, ToolWholeC2, FinishToolCalls}
      [] s = "tail" -> {TextHello, ToolWholeC2, FinishToolCalls}
      [] s = "finish" ->
            {ToolWholeC2, TextHello, FinishLength, FinishNull, FinishStop, FinishToolCalls}
      [] s = "anomaly" ->
            {ToolWholeC2, FinishToolCalls, BadJson, NoChoices, NoDelta, NoDeltaFinish, NoPrefix}
      [] s = "noid" ->
            {ToolStartFrag1, ToolFrag2, ToolWholeC2, NoIdFrag2, NoIdWhole, FinishToolCalls}
      [] s = "redecl" ->
            {ToolStartFrag1, ToolRedeclare, ToolRedeclareFrag2, ToolFrag2, FinishToolCalls}
      [] OTHER -> {TextHello, FinishStop}

\* the response scripts of a scenario
Scripts(s) ==
    IF s \in {"gate", "config", "resolve", "msgs", "shared"} THEN {<<TextHello, FinishStop>>}
    ELSE SeqsUpTo(Menu(s), CASE s = "chunk" -> MaxChunkLines
                                [] s = "skip" -> MaxSkipLines
                                [] s = "lossy" -> MaxLossyLines
                                [] s = "redecl" -> MaxRedeclLines
                                [] s = "tail" -> MaxTailLines
                                [] s = "noid" -> MaxNoIdLines
                                [] s = "window" -> MaxWindowLines
                                [] s = "anomaly" -> MaxAnomalyLines
                                [] s = "finish" -> MaxFinishLines
                                [] OTHER -> MaxLines) \ {<<>>}

\* the bodies a provider may send for a script: in the tail scenario the
\* last line may come without its newline
Bodies(s, sc) ==
    IF s = "tail"
    THEN {RenderBody(sc), SubSeq(RenderBody(sc), 1, Len(RenderBody(sc)) - 1)}
    ELSE {RenderBody(sc)}

\* how many emit calls may fail in a run of a scenario
LostBudget(s) == IF s \in {"gate", "config", "lossy"} THEN MaxLost ELSE 0

\* the lengths the next chunk of the body may have: any length in the chunk
\* scenario; up to the end of a line or of the body otherwise
ChunkLens(s, b, p) ==
    IF s = "chunk" THEN 1..(Len(b) - p)
    ELSE {n \in {FindFrom(b, "\n", p + 1) - p, Len(b) - p} : n > 0}

EmptyEnv == [n \in EnvNames |-> None]

\* the first letter of a text in upper case
Capitalised(s) ==
    [i \in 1..Len(s) |-> IF i = 1 /\ Find(LowerCase, s[i]) # 0
                         THEN UpperCase[Find(LowerCase, s[i])] ELSE s[i]]

\* every letter of a text in upper case
Uppercased(s) ==
    [i \in 1..Len(s) |-> IF Find(LowerCase, s[i]) # 0 THEN UpperCase[Find(LowerCase, s[i])] ELSE s[i]]

\* the provider names of from_string, as written in the source
ProviderNames ==
    {N_openai, N_anthropic, N_gemini, N_google, N_bedrock, N_groq, N_deepseek, N_ollama, N_cohere}

\* provider names in three spellings, and texts that are no provider name
ProviderTexts ==
    ProviderNames
    \cup {Capitalised(n) : n \in ProviderNames}
    \cup {Uppercased(n) : n \in ProviderNames}
    \cup {T_bogus, <<>>, <<" ">> \o N_openai, N_openai \o <<"x">>, Tail(N_gemini)}

\* the value each credential and base-URL variable holds when it is set
EnvText ==
    [n \in EnvNames |->
        CASE n = "OPENAI_API_KEY" -> <<"k", "o">>
          [] n = "ANTHROPIC_API_KEY" -> <<"k", "a">>
          [] n = "GEMINI_API_KEY" -> <<"k", "g">>
          [] n = "GOOGLE_GENERATIVE_AI_API_KEY" -> <<"k", "G">>
          [] n = "GROQ_API_KEY" -> <<"k", "q">>
          [] n = "DEEPSEEK_API_KEY" -> <<"k", "d">>
          [] n = "COHERE_API_KEY" -> <<"k", "c">>
          [] n = "OPENAI_BASE_URL" -> <<"u", "o">>
          [] n = "ANTHROPIC_BASE_URL" -> <<"u", "a">>
          [] n = "DEEPSEEK_BASE_URL" -> <<"u", "d">>
          [] n = "OLLAMA_BASE_URL" -> <<"u", "l">>
          [] OTHER -> <<>>]

KeyVars ==
    {"OPENAI_API_KEY", "ANTHROPIC_API_KEY", "GEMINI_API_KEY", "GOOGLE_GENERATIVE_AI_API_KEY",
     "GROQ_API_KEY", "DEEPSEEK_API_KEY", "COHERE_API_KEY"}

UrlVars == {"OPENAI_BASE_URL", "ANTHROPIC_BASE_URL", "DEEPSEEK_BASE_URL", "OLLAMA_BASE_URL"}

\* an environment with the given provider and model, and the given
\* credential and base-URL variables set
EnvWith(provider, model, set) ==
    [n \in EnvNames |->
        CASE n = "AI_PROVIDER" -> provider
          [] n = "AI_MODEL" -> model
          [] n \in set -> Some(EnvText[n])
          [] OTHER -> None]

\* an environment that configures OpenAI completely
BaseEnv ==
    [EmptyEnv EXCEPT !["AI_PROVIDER"] = Some(N_openai),
                     !["AI_MODEL"] = Some(T_m0),
                     !["OPENAI_API_KEY"] = Some(T_k0)]

Envs(s) ==
    CASE s = "gate" ->
            {[BaseEnv EXCEPT !["ACCESS_CODE_LIST"] = l] :
                l \in {None, Some(<<>>), Some(T_list_blank), Some(T_list_A1_B2),
                       Some(T_list_B2_comma)}}
      [] s = "config" ->
            {[EmptyEnv EXCEPT !["AI_PROVIDER"] = p, !["AI_MODEL"] = m,
                              !["OPENAI_API_KEY"] = k,
                              !["GOOGLE_GENERATIVE_AI_API_KEY"] = g] :
                p \in {None, Some(N_anthropic)}, m \in {None, Some(T_m0)},
                k \in {None, Some(T_k0)}, g \in {None, Some(T_k2)}}
      [] s = "resolve" ->
            {EnvWith(p, m, keys \cup urls) :
                p \in {None, Some(N_anthropic), Some(N_ollama)}, m \in {None, Some(T_m0)},
                keys \in {{}, KeyVars, {"GOOGLE_GENERATIVE_AI_API_KEY"}},
                urls \in {{}, UrlVars}}
      [] s = "shared" ->
            {EnvWith(p, Some(T_m0), keys \cup urls) :
                p \in {Some(N_openai), Some(N_anthropic)},
                keys \in {{}, KeyVars}, urls \in {{}, UrlVars}}
      [] OTHER -> {BaseEnv}

\* role texts: the three known roles, and two that are not known
T_tool == <<"t", "o", "o", "l">>
T_User == <<"U", "s", "e", "r">>
RoleTexts == {R_user, R_assistant, R_system, T_tool, T_User}

\* message parts: texts of one line, of no character and of two lines, and a
\* part that is not a Text part
T_two_lines == <<"b", "\n", "c">>
PartMenu == {PartText(T_x), PartText(<<>>), PartText(T_two_lines), PartFile(T_u1)}

UserHello == UIMessage(R_user, <<PartText(T_Hello)>>)

Messages == {UIMessage(role, parts) : role \in RoleTexts, parts \in SeqsUpTo(PartMenu, MaxParts)}

\* the message lists of a request: none, one message, or one message before
\* or after a user message
MessageLists ==
    {<<>>} \cup {<<m>> : m \in Messages}
    \cup {<<UserHello, m>> : m \in Messages} \cup {<<m, UserHello>> : m \in Messages}

BaseReq ==
    [payload_ok |-> TRUE, access_code |-> None,
     messages |-> <<UserHello>>, xml |-> None, previous_xml |-> None,
     provider_override |-> None, model_override |-> None,
     api_key_override |-> None, base_url_override |-> None, minimal_style |-> None]

Reqs(s) ==
    CASE s = "gate" ->
            {[BaseReq EXCEPT !.payload_ok = ok, !.access_code = c] :
                ok \in BOOLEAN,
                c \in {None, Some(<<>>), Some(T_A1), Some(T_B2), Some(T_x), Some(T_sp_B2)}}
      [] s = "config" ->
            {[BaseReq EXCEPT !.provider_override = p, !.model_override = m,
                             !.api_key_override = k, !.base_url_override = u] :
                p \in {None, Some(T_OpenAI), Some(T_GOOGLE), Some(T_Ollama), Some(T_bogus)},
                m \in {None, Some(T_m1)}, k \in {None, Some(T_k1)}, u \in {None, Some(T_u1)}}
      [] s = "resolve" ->
            {[BaseReq EXCEPT !.provider_override = p, !.model_override = m,
                             !.api_key_override = k, !.base_url_override = u] :
                p \in {None} \cup {Some(t) : t \in ProviderTexts},
                m \in {None, Some(T_m1)}, k \in {None, Some(T_k1)}, u \in {None, Some(T_u1)}}
      [] s = "shared" ->
            {[BaseReq EXCEPT !.provider_override = p, !.api_key_override = k,
                             !.base_url_override = u] :
                p \in {None, Some(N_anthropic), Some(N_gemini), Some(N_ollama)},
                k \in {None, Some(T_k1)}, u \in {None, Some(T_u1)}}
      [] s = "msgs" ->
            {[BaseReq EXCEPT !.messages = ms, !.xml = x, !.previous_xml = px,
                             !.minimal_style = st] :
                ms \in MessageLists, x \in {None, Some(T_xml1)}, px \in {None, Some(T_xml0)},
                st \in {None, Some(TRUE)}}
      [] OTHER -> {BaseReq}

-----------------------------------------------------------------------------
(* chat_stream as a state machine: one action per stretch of code between  *)
(* two awaits, the line loop of a chunk taken one line at a time.           *)

Ok == <<"Ok">>
Err(kind) == <<"Err", kind>>

\* window.emit may succeed or fail while the scenario's budget lasts
EmitOutcomes == IF Cardinality(lost) < LostBudget(scn) THEN {TRUE, FALSE} ELSE {TRUE}

\* the sets of emit calls, among those at indices from..to, that may fail
LossChoices(from, to) ==
    {L \in SUBSET (from..to) : Cardinality(lost) + Cardinality(L) <= LostBudget(scn)}

\* the second invocation before it is made
OtherIdle ==
    [pc |-> "idle", result |-> <<>>, events |-> <<>>, body |-> <<>>, pos |-> 0,
     buffer |-> <<>>, tool_call_args |-> EmptyMap]

InitIn(S) ==
    /\ scn \in S
    /\ env \in Envs(scn)
    /\ req \in Reqs(scn)
    /\ pc = "idle"
    /\ result = <<>>
    /\ events = <<>>
    /\ lost = {}
    /\ requests = <<>>
    /\ script = <<>>
    /\ body = <<>>
    /\ pos = 0
    /\ buffer = <<>>
    /\ tool_call_args = EmptyMap
    /\ peers = <<>>
    /\ other = OtherIdle

Init == InitIn(Scenarios)

\* the Start event after a preflight result p
BeginWith(p) ==
    IF ~p.ok
    THEN /\ pc' = "done"
         /\ result' = Err(p.err)
         /\ UNCHANGED <<events, lost>>
    ELSE \E ok \in EmitOutcomes :
         /\ events' = Append(events, EvStart)
         /\ lost' = IF ok THEN lost ELSE lost \cup {Len(events) + 1}
         /\ pc' = IF ok THEN "send" ELSE "done"
         /\ result' = IF ok THEN result ELSE Err("EmitStartFailed")

\* lines 88-171: payload, access gate, configuration, credential, Start event
Begin ==
    /\ pc = "idle"
    /\ BeginWith(Preflight(env, req))
    /\ UNCHANGED <<scn, env, req, peers, other, requests, script, body, pos, buffer, tool_call_args>>

\* the request built from a preflight result p
RequestOf(p, r) ==
    [url |-> p.url, api_key |-> p.api_key, model |-> p.model,
     messages |-> OutboundMessages(r, p.model)]

\* SendRequest with the client built by create_client from the configuration
SendRequest_create_client ==
    /\ pc = "send"
    /\ requests' = Append(requests, RequestOf(Preflight(env, req), req))
    /\ \E outcome \in {"send_failed", "bad_status", "success"} :
         IF outcome = "success"
         THEN /\ \E sc \in Scripts(scn) : \E b \in Bodies(scn, sc) : script' = sc /\ body' = b
              /\ pc' = "stream"
              /\ UNCHANGED result
         ELSE /\ pc' = "done"
              /\ result' = Err(IF outcome = "send_failed" THEN "RequestFailed" ELSE "ApiError")
              /\ UNCHANGED <<script, body>>
    /\ env' = CreateClient(env, FromEnvAndOverrides(env, req.provider_override,
                                                   req.model_override, req.api_key_override,
                                                   req.base_url_override))
    /\ UNCHANGED <<scn, req, peers, other, events, lost, pos, buffer, tool_call_args>>

\* lines 173-206: the POST and its outcome: a send failure, a non-success
\* status, or a response whose body will be streamed
SendRequest ==
    /\ pc = "send"
    /\ requests' = Append(requests, RequestOf(Preflight(env, req), req))
    /\ \E outcome \in {"send_failed", "bad_status", "success"} :
         IF outcome = "success"
         THEN /\ \E sc \in Scripts(scn) : \E b \in Bodies(scn, sc) : script' = sc /\ body' = b
              /\ pc' = "stream"
              /\ UNCHANGED result
         ELSE /\ pc' = "done"
              /\ result' = Err(IF outcome = "send_failed" THEN "RequestFailed" ELSE "ApiError")
              /\ UNCHANGED <<script, body>>
    /\ UNCHANGED <<scn, env, req, peers, other, events, lost, pos, buffer, tool_call_args>>

\* TRUE while the line loop of the current chunk has a line to take
HasLine == Find(buffer, "\n") # 0

\* lines 209-213: the next chunk arrives and is appended to the buffer
RecvChunk ==
    /\ pc = "stream"
    /\ ~HasLine
    /\ pos < Len(body)
    /\ \E n \in ChunkLens(scn, body, pos) :
         /\ buffer' = buffer \o FromUtf8Lossy(SubSeq(body, pos + 1, pos + n))
         /\ pos' = pos + n
    /\ UNCHANGED <<scn, env, req, peers, other, pc, result, events, lost, requests, script, body, tool_call_args>>

\* the line at the front of the buffer, trimmed
FrontLine == Trim(SubSeq(buffer, 1, Find(buffer, "\n") - 1))

\* ProcessLine returning an error when an emit call of the line fails
ProcessLine_abort_on_failure ==
    /\ pc = "stream"
    /\ HasLine
    /\ buffer' = SubSeq(buffer, Find(buffer, "\n") + 1, Len(buffer))
    /\ \E out \in LineOutcomes(FrontLine, tool_call_args) :
         /\ tool_call_args' = out.map
         /\ events' = events \o out.evs
         /\ \E L \in LossChoices(Len(events) + 1, Len(events) + Len(out.evs)) :
              /\ lost' = lost \cup L
              /\ pc' = IF L = {} THEN pc ELSE "done"
              /\ result' = IF L = {} THEN result ELSE Err("EmitFailed")
    /\ UNCHANGED <<scn, env, req, peers, other, requests, script, body, pos>>

\* ProcessLine leaving the line it has processed in the buffer
ProcessLine_keeps_line ==
    /\ pc = "stream"
    /\ HasLine
    /\ \E out \in LineOutcomes(FrontLine, tool_call_args) :
         /\ tool_call_args' = out.map
         /\ events' = events \o out.evs
    /\ UNCHANGED <<scn, env, req, peers, other, pc, result, lost, requests, script, body, pos, buffer>>

\* ProcessLine ending the stream at the termination sentinel
ProcessLine_done_ends ==
    /\ pc = "stream"
    /\ HasLine
    /\ buffer' = SubSeq(buffer, Find(buffer, "\n") + 1, Len(buffer))
    /\ IF FrontLine = DoneSentinel
       THEN /\ events' = Append(events, EvFinish(None))
            /\ result' = Ok
            /\ pc' = "done"
            /\ UNCHANGED <<tool_call_args, lost>>
       ELSE /\ \E out \in LineOutcomes(FrontLine, tool_call_args) :
                 /\ tool_call_args' = out.map
                 /\ events' = events \o out.evs
                 /\ \E L \in LossChoices(Len(events) + 1, Len(events) + Len(out.evs)) :
                      lost' = lost \cup L
            /\ UNCHANGED <<pc, result>>
    /\ UNCHANGED <<scn, env, req, peers, other, requests, script, body, pos>>

\* lines 216-296: one iteration of the line loop
ProcessLine ==
    /\ pc = "stream"
    /\ HasLine
    /\ buffer' = SubSeq(buffer, Find(buffer, "\n") + 1, Len(buffer))
    /\ \E out \in LineOutcomes(FrontLine, tool_call_args) :
         /\ tool_call_args' = out.map
         /\ events' = events \o out.evs
         /\ \E L \in LossChoices(Len(events) + 1, Len(events) + Len(out.evs)) :
              lost' = lost \cup L
    /\ UNCHANGED <<scn, env, req, peers, other, pc, result, requests, script, body, pos>>

\* line 211: the byte stream yields an error instead of a chunk
ChunkError ==
    /\ pc = "stream"
    /\ ~HasLine
    /\ pc' = "done"
    /\ result' = Err("StreamError")
    /\ UNCHANGED <<scn, env, req, peers, other, events, lost, requests, script, body, pos, buffer, tool_call_args>>

\* EndOfStream processing what is left in the buffer as a last line
EndOfStream_flush ==
    /\ pc = "stream"
    /\ ~HasLine
    /\ pos = Len(body)
    /\ \E out \in LineOutcomes(Trim(buffer), tool_call_args) :
         /\ events' = (events \o out.evs) \o <<EvFinish(None)>>
         /\ tool_call_args' = out.map
    /\ buffer' = <<>>
    /\ result' = Ok
    /\ pc' = "done"
    /\ UNCHANGED <<scn, env, req, peers, other, lost, requests, script, body, pos>>

\* lines 299-304: the byte stream has ended: Finish event and return
EndOfStream ==
    /\ pc = "stream"
    /\ ~HasLine
    /\ pos = Len(body)
    /\ \E ok \in EmitOutcomes :
         /\ events' = Append(events, EvFinish(None))
         /\ lost' = IF ok THEN lost ELSE lost \cup {Len(events) + 1}
         /\ result' = IF ok THEN Ok ELSE Err("EmitFinishFailed")
    /\ pc' = "done"
    /\ UNCHANGED <<scn, env, req, peers, other, requests, script, body, pos, buffer, tool_call_args>>

Next ==
    \/ Begin
    \/ SendRequest
    \/ RecvChunk
    \/ ProcessLine
    \/ ChunkError
    \/ EndOfStream

\* chat_stream invoked again with no override: lines 108-114, the
\* configuration it resolves from the environment
PeerResolve ==
    /\ Len(peers) < MaxPeers
    /\ peers' = Append(peers, [at |-> pc,
                               config |-> FromEnvAndOverrides(env, None, None, None, None)])
    /\ UNCHANGED <<scn, env, req, pc, result, events, lost, requests, script, body, pos, buffer,
                   tool_call_args, other>>

\* one invocation, and other invocations resolving their configuration
NextShared ==
    \/ Next
    \/ PeerResolve

\* the emit calls of the second invocation for a sequence of events, made
\* after the emit calls the first invocation has made so far
Stamped(evs) == [k \in 1..Len(evs) |-> [at |-> Len(events), ev |-> evs[k]]]

\* lines 88-171 of the second invocation, given the same arguments
OtherBegin ==
    /\ other.pc = "idle"
    /\ other' = IF Preflight(env, req).ok
                THEN [other EXCEPT !.pc = "send", !.events = Stamped(<<EvStart>>)]
                ELSE [other EXCEPT !.pc = "done", !.result = Err(Preflight(env, req).err)]
    /\ UNCHANGED <<scn, env, req, pc, result, events, lost, requests, script, body, pos, buffer,
                   tool_call_args, peers>>

\* lines 173-206 of the second invocation: its POST and its outcome
OtherSendRequest ==
    /\ other.pc = "send"
    /\ \E outcome \in {"send_failed", "bad_status", "success"} :
         IF outcome = "success"
         THEN \E sc \in Scripts(scn) :
                  other' = [other EXCEPT !.pc = "stream", !.body = RenderBody(sc)]
         ELSE other' = [other EXCEPT !.pc = "done",
                                     !.result = Err(IF outcome = "send_failed"
                                                    THEN "RequestFailed" ELSE "ApiError")]
    /\ UNCHANGED <<scn, env, req, pc, result, events, lost, requests, script, body, pos, buffer,
                   tool_call_args, peers>>

\* lines 209-213 of the second invocation: its next chunk
OtherRecvChunk ==
    /\ other.pc = "stream"
    /\ Find(other.buffer, "\n") = 0
    /\ other.pos < Len(other.body)
    /\ \E n \in ChunkLens(scn, other.body, other.pos) :
         other' = [other EXCEPT
                      !.buffer = @ \o FromUtf8Lossy(SubSeq(other.body, other.pos + 1, other.pos + n)),
                      !.pos = @ + n]
    /\ UNCHANGED <<scn, env, req, pc, result, events, lost, requests, script, body, pos, buffer,
                   tool_call_args, peers>>

\* lines 216-296 of the second invocation: one iteration of its line loop
OtherProcessLine ==
    /\ other.pc = "stream"
    /\ Find(other.buffer, "\n") # 0
    /\ \E out \in LineOutcomes(Trim(SubSeq(other.buffer, 1, Find(other.buffer, "\n") - 1)),
                                other.tool_call_args) :
         other' = [other EXCEPT
                      !.buffer = SubSeq(@, Find(@, "\n") + 1, Len(@)),
                      !.tool_call_args = out.map,
                      !.events = @ \o Stamped(out.evs)]
    /\ UNCHANGED <<scn, env, req, pc, result, events, lost, requests, script, body, pos, buffer,
                   tool_call_args, peers>>

\* line 211 of the second invocation: its byte stream yields an error
OtherChunkError ==
    /\ other.pc = "stream"
    /\ Find(other.buffer, "\n") = 0
    /\ other' = [other EXCEPT !.pc = "done", !.result = Err("StreamError")]
    /\ UNCHANGED <<scn, env, req, pc, result, events, lost, requests, script, body, pos, buffer,
                   tool_call_args, peers>>

\* lines 299-304 of the second invocation: Finish event and return
OtherEndOfStream ==
    /\ other.pc = "stream"
    /\ Find(other.buffer, "\n") = 0
    /\ other.pos = Len(other.body)
    /\ other' = [other EXCEPT !.pc = "done", !.result = Ok,
                              !.events = @ \o Stamped(<<EvFinish(None)>>)]
    /\ UNCHANGED <<scn, env, req, pc, result, events, lost, requests, script, body, pos, buffer,
                   tool_call_args, peers>>

\* two invocations of chat_stream on one window: each is a task of the async
\* runtime, and a task that awaits lets the other run
NextWindow ==
    \/ Next
    \/ OtherBegin
    \/ OtherSendRequest
    \/ OtherRecvChunk
    \/ OtherProcessLine
    \/ OtherChunkError
    \/ OtherEndOfStream

\* lines 216-296 run without an await: a line loop that has a line to take
\* takes it.  This is weak fairness of ProcessLine, written with the
\* condition under which ProcessLine is enabled.
LineLoopRuns ==
    \/ []<>(~(pc = "stream" /\ HasLine))
    \/ []<><<ProcessLine>>_vars

\* the task of an invocation is polled until it returns: the code before
\* the request, the request and the line loop run when they can, and
\* stream.next() yields a chunk, an error or the end of the stream
Fairness ==
    /\ WF_vars(Begin)
    /\ WF_vars(SendRequest)
    /\ LineLoopRuns
    /\ WF_vars(RecvChunk \/ ChunkError \/ EndOfStream)

Spec == Init /\ [][Next]_vars
SpecGate == InitIn({"gate"}) /\ [][Next]_vars
SpecConfig == InitIn({"config"}) /\ [][Next]_vars
SpecResolve == InitIn({"resolve"}) /\ [][Next]_vars
SpecMsgs == InitIn({"msgs"}) /\ [][Next]_vars
SpecLossy == InitIn({"lossy"}) /\ [][Next]_vars
SpecRedecl == InitIn({"redecl"}) /\ [][Next]_vars
SpecFinish == InitIn({"finish"}) /\ [][Next]_vars
SpecTail == InitIn({"tail"}) /\ [][Next]_vars
SpecNoId == InitIn({"noid"}) /\ [][Next]_vars
SpecAnomaly == InitIn({"anomaly"}) /\ [][Next]_vars
SpecShared == InitIn({"shared"}) /\ [][NextShared]_vars
SpecWindow == InitIn({"window"}) /\ [][NextWindow]_vars
SpecText == InitIn({"text"}) /\ [][Next]_vars
SpecTool == InitIn({"tool"}) /\ [][Next]_vars
SpecSkip == InitIn({"skip"}) /\ [][Next]_vars
SpecChunk == InitIn({"chunk"}) /\ [][Next]_vars
SpecTailFair == InitIn({"tail"}) /\ [][Next]_vars /\ Fairness


-----------------------------------------------------------------------------
(* Observers of a run, used to state the properties below. *)

\* the number of newlines in a sequence of bytes or characters
CountNewlines(seq) == Cardinality({i \in 1..Len(seq) : seq[i] = "\n"})

\* the number of lines of the script the line loop has processed so far
LinesDone == CountNewlines(SubSeq(body, 1, pos)) - CountNewlines(buffer)

\* TRUE when the line loop is about to process a line of the script
AtScriptLine == pc = "stream" /\ HasLine /\ LinesDone < Len(script)

\* the script line the line loop is about to process
NextScriptLine == script[LinesDone + 1]

IsDelta(ev) == Kind(ev) \in {"TextDelta", "ToolCallStart", "ToolInputDelta"}
IsTerminal(ev) == Kind(ev) \in {"Finish", "Error"}
IsComplete(ev) == Kind(ev) = "ToolInputComplete"

\* how many events of a sequence satisfy a test
Count(seq, Test(_)) == Cardinality({i \in 1..Len(seq) : Test(seq[i])})

\* the call ids the scripts use
CallIds == {T_c1, T_c2}

-----------------------------------------------------------------------------
(* C1: every invocation that emits Start delivers an event sequence that    *)
(* begins with exactly one Start and ends with exactly one terminal event   *)
(* (Finish or Error), whatever happens after Start.  chat_stream returns    *)
(* its errors after Start (send failure, bad status, chunk error) without   *)
(* emitting any event, so this is violated.                                 *)
C1_StartThenTerminal ==
    (pc = "done" /\ events # <<>>) =>
        /\ events[1] = EvStart
        /\ Count(events, LAMBDA ev : ev = EvStart) = 1
        /\ IsTerminal(events[Len(events)])
        /\ Count(events, IsTerminal) = 1

(* C2: within one stream each call id receives at most one                 *)
(* ToolInputComplete, also when several lines carry a finish signal.  The   *)
(* map is neither cleared nor marked after a finish check, so a second      *)
(* finish signal emits the batch again.                                     *)
C2_CompleteAtMostOnce ==
    \A id \in CallIds :
        Count(events, LAMBDA ev : IsComplete(ev) /\ ev[2] = id) <= 1

(* C3: within one stream no TextDelta, ToolCallStart or ToolInputDelta is   *)
(* emitted after a ToolInputComplete.  Lines that arrive after the finish   *)
(* signal are still decoded, so this is violated.                           *)
C3_NoDeltaAfterComplete ==
    \A i, j \in 1..Len(events) :
        (i < j /\ IsComplete(events[i])) => ~IsDelta(events[j])


-----------------------------------------------------------------------------
(* The access gate, stated on the inputs of the gate scenario. *)

\* the codes each configured ACCESS_CODE_LIST value is meant to allow
ListedCodes(list) ==
    CASE list = Some(T_list_A1_B2) -> {T_A1, T_B2}
      [] list = Some(T_list_B2_comma) -> {T_B2}
      [] OTHER -> {}

\* TRUE when the request's access code is absent or not one of the codes
CodeMissing(codes) == ~IsSome(req.access_code) \/ Unwrap(req.access_code) \notin codes

\* TRUE when the gate has to refuse the request
MustDeny ==
    /\ ListedCodes(env["ACCESS_CODE_LIST"]) # {}
    /\ CodeMissing(ListedCodes(env["ACCESS_CODE_LIST"]))

(* C4: when ACCESS_CODE_LIST parses to a non-empty list, a request whose    *)
(* access code is absent or not in the list fails with an access-denied     *)
(* error, no Start event having been emitted and no HTTP request made; a    *)
(* request whose code is in the list, and every request when the list is    *)
(* unset or parses to empty, passes the gate and goes on to the Start event.*)
C4_AccessGate ==
    (scn = "gate" /\ req.payload_ok) =>
        IF MustDeny
        THEN /\ events = <<>>
             /\ requests = <<>>
             /\ pc # "idle" => (pc = "done" /\ result = Err("AccessDenied"))
        ELSE /\ result # Err("AccessDenied")
             /\ pc # "idle" => (events # <<>> /\ events[1] = EvStart)

\* a refused request has returned: list "A1, B2", code "x"
C4_Witness_Denied ==
    /\ env["ACCESS_CODE_LIST"] = Some(T_list_A1_B2)
    /\ req.access_code = Some(T_x)
    /\ req.payload_ok
    /\ pc = "done"
    /\ result = Err("AccessDenied")


-----------------------------------------------------------------------------
(* Chunk boundaries. *)

RECURSIVE WholeEvents(_, _)
WholeAfter(rest, out) == out.evs \o WholeEvents(rest, out.map)

\* the events the line loop emits for a decoded text that arrived as one
\* chunk, starting from a tool-call map
WholeEvents(text, map) ==
    IF Find(text, "\n") = 0 THEN <<>>
    ELSE WholeAfter(SubSeq(text, Find(text, "\n") + 1, Len(text)),
                    CHOOSE out \in LineOutcomes(Trim(SubSeq(text, 1, Find(text, "\n") - 1)), map) : TRUE)

(* C5: decoding is chunk-boundary-invariant: a well-formed body split into  *)
(* chunks at any byte offsets yields the same ordered sequence of events as *)
(* the body delivered as one chunk.  Each chunk is decoded on its own with  *)
(* from_utf8_lossy, so a boundary inside a multi-byte character yields      *)
(* replacement characters and the sequences differ.                         *)
C5_ChunkInvariance ==
    (scn = "chunk" /\ pc = "done" /\ result = Ok) =>
        events = <<EvStart>> \o WholeEvents(FromUtf8Lossy(body), EmptyMap) \o <<EvFinish(None)>>


-----------------------------------------------------------------------------
(* Tool calls, stated on the lines the provider sent. *)

\* TRUE for a script line that carries a finish signal
IsFinishLine(l) ==
    l.t = "data" /\ IsSome(l.finish) /\ Unwrap(l.finish) \in {V_stop, K_tool_calls}

\* the lines of the script processed so far
LinesSeen == SubSeq(script, 1, LinesDone)

\* TRUE when the last line processed is the first one with a finish signal
AfterFirstFinish ==
    /\ LinesDone >= 1
    /\ IsFinishLine(script[LinesDone])
    /\ \A k \in 1..(LinesDone - 1) : ~IsFinishLine(script[k])

RECURSIVE Entries(_)
\* the tool_calls entries of a sequence of lines, in arrival order
Entries(lines) == IF lines = <<>> THEN <<>> ELSE Head(lines).tools \o Entries(Tail(lines))

\* the entries that carry a call id
EntriesOf(id, lines) == SelectSeq(Entries(lines), LAMBDA tc : tc.id = Some(id))

\* TRUE for entries of one id that declare its name first and only then
NameThenFragments(es) ==
    /\ es # <<>>
    /\ IsSome(es[1].name)
    /\ \A k \in 2..Len(es) : ~IsSome(es[k].name)

Fragment(tc) == Unwrap(tc.args)

\* the argument fragments of a sequence of entries, in arrival order
Fragments(es) ==
    [k \in 1..Len(SelectSeq(es, LAMBDA tc : IsSome(tc.args))) |->
        Fragment(SelectSeq(es, LAMBDA tc : IsSome(tc.args))[k])]

RECURSIVE Concat(_)
Concat(texts) == IF texts = <<>> THEN <<>> ELSE Head(texts) \o Concat(Tail(texts))

\* the JSON value of the argument texts the scripts can build: the texts not
\* listed are not valid JSON
KnownValue(text) ==
    CASE text = Frag1 \o Frag2 -> Some(ArgValue1)
      [] text = ArgText2 -> Some(ArgValue2)
      [] OTHER -> None

IsToolEvent(ev) == Kind(ev) \in {"ToolCallStart", "ToolInputDelta", "ToolInputComplete"}

\* the events emitted for a call id
EventsOf(id) == SelectSeq(events, LAMBDA ev : IsToolEvent(ev) /\ ev[2] = id)

\* the case of C6 for a call id: name first, then fragments whose
\* concatenation is valid JSON, then the first finish signal
AccumulationCase(id) ==
    /\ scn = "tool"
    /\ AfterFirstFinish
    /\ NameThenFragments(EntriesOf(id, LinesSeen))
    /\ IsSome(KnownValue(Concat(Fragments(EntriesOf(id, LinesSeen)))))

\* the events C6 expects for entries es of a call id
ExpectedEvents(id, es) ==
    <<EvToolCallStart(id, Unwrap(es[1].name))>>
    \o [k \in 1..Len(Fragments(es)) |-> EvToolInputDelta(id, Fragments(es)[k])]
    \o <<EvToolInputComplete(id, Unwrap(es[1].name),
                            Unwrap(KnownValue(Concat(Fragments(es)))))>>

(* C6: for a call id first seen with a tool name and then argument          *)
(* fragments f1..fn, followed by a finish signal, the events emitted for    *)
(* that id are ToolCallStart(id, name), ToolInputDelta(id, f1) ..           *)
(* ToolInputDelta(id, fn), then ToolInputComplete(id, name, v), v being     *)
(* the JSON value of the concatenation f1..fn.                              *)
C6_ToolCallAccumulation ==
    \A id \in CallIds :
        AccumulationCase(id) => EventsOf(id) = ExpectedEvents(id, EntriesOf(id, LinesSeen))

\* the call c1 has been completed from two fragments
C6_Witness_TwoFragments ==
    /\ AccumulationCase(T_c1)
    /\ Len(Fragments(EntriesOf(T_c1, LinesSeen))) = 2
    /\ EventsOf(T_c1)[4] = EvToolInputComplete(T_c1, T_display_diagram, ArgValue1)

\* the ToolInputComplete events a finish check owes for a map: one per entry
\* whose accumulated text is valid JSON
OwedCompletes(map) ==
    {EvToolInputComplete(id, map[id][1], Unwrap(KnownValue(map[id][2]))) :
        id \in {i \in DOMAIN map : IsSome(KnownValue(map[i][2]))}}

\* TRUE when the step appends to the events exactly the events of a set,
\* once each, in some order
AppendsExactly(S) ==
    /\ Len(events') = Len(events) + Cardinality(S)
    /\ SubSeq(events', 1, Len(events)) = events
    /\ {events'[k] : k \in (Len(events) + 1)..Len(events')} = S

\* the step that processes a line with a finish signal
FinishLineStep == scn = "tool" /\ AtScriptLine /\ IsFinishLine(NextScriptLine)

\* the step that ends the stream normally
EndStep == scn = "tool" /\ pc = "stream" /\ pc' = "done" /\ result' = Ok

(* C7: when a finish signal is observed, an id whose accumulated argument   *)
(* text is not valid JSON gets no ToolInputComplete and no other event in   *)
(* its place, while every other id gets its ToolInputComplete and the       *)
(* stream still ends with the Finish event.                                 *)
C7_InvalidArgumentsSkipped ==
    [][/\ FinishLineStep => AppendsExactly(OwedCompletes(tool_call_args))
       /\ EndStep => events' = Append(events, EvFinish(None))]_vars

\* a finish signal has been processed with c1 holding half of its arguments
\* and c2 complete: only c2 got its ToolInputComplete
C7_Witness_OneInvalid ==
    /\ scn = "tool"
    /\ AfterFirstFinish
    /\ DOMAIN tool_call_args = {T_c1, T_c2}
    /\ tool_call_args[T_c1][2] = Frag1
    /\ events[Len(events)] = EvToolInputComplete(T_c2, T_edit_diagram, ArgValue2)
    /\ Count(events, IsComplete) = 1


-----------------------------------------------------------------------------
(* Text-only streams. *)

\* TRUE for a script of content deltas closed by a finish_reason of stop
ContentOnly(sc) ==
    /\ sc # <<>>
    /\ \A k \in 1..Len(sc) : sc[k].t = "data" /\ sc[k].tools = <<>>
    /\ \A k \in 1..(Len(sc) - 1) : IsSome(sc[k].content) /\ ~IsSome(sc[k].finish)
    /\ sc[Len(sc)].finish = Some(V_stop)
    /\ ~IsSome(sc[Len(sc)].content)

\* the content deltas of a script that are not empty, in arrival order
NonEmptyContents(sc) ==
    SelectSeq([k \in 1..(Len(sc) - 1) |-> Unwrap(sc[k].content)], LAMBDA c : c # <<>>)

TextDeltas(contents) == [k \in 1..Len(contents) |-> EvTextDelta(contents[k])]

(* C8: for a stream that carries only content deltas c1..cn and a           *)
(* finish_reason of stop, the events are exactly Start, TextDelta(ci) for   *)
(* each non-empty ci in arrival order, and Finish with absent usage.        *)
C8_TextOnlyStream ==
    (scn = "text" /\ pc = "done" /\ result = Ok /\ ContentOnly(script)) =>
        events = <<EvStart>> \o TextDeltas(NonEmptyContents(script)) \o <<EvFinish(None)>>

\* "Hello", an empty content and " world" have been streamed to the end
C8_Witness_HelloWorld ==
    /\ pc = "done"
    /\ result = Ok
    /\ script = <<TextHello, TextEmpty, TextWorld, FinishStop>>
    /\ events = <<EvStart, EvTextDelta(T_Hello), EvTextDelta(T_world), EvFinish(None)>>

-----------------------------------------------------------------------------
(* Lines that are skipped. *)

\* TRUE for a script line that is blank or the termination sentinel
IsSkippedLine(l) ==
    /\ l.t = "raw"
    /\ l.text \in {<<>>, <<" ", "\r">>, DoneSentinel, DoneSentinel \o <<"\r">>}

(* C9: a line that is empty after trimming, or that equals the termination  *)
(* sentinel, produces no event and leaves the tool-call map as it was,      *)
(* wherever it occurs in the stream.                                        *)
C9_SkippedLines ==
    [][(scn = "skip" /\ AtScriptLine /\ IsSkippedLine(NextScriptLine)) =>
            (events' = events /\ tool_call_args' = tool_call_args)]_vars

\* the sentinel has been processed after a complete tool call: the call is
\* still in the map and nothing was emitted for the sentinel
C9_Witness_DoneAfterCall ==
    /\ scn = "skip"
    /\ pc = "stream"
    /\ LinesDone = 2
    /\ script[1] = ToolWholeC2
    /\ script[2] = DoneLine
    /\ T_c2 \in DOMAIN tool_call_args
    /\ Len(events) = 3

-----------------------------------------------------------------------------
(* Configuration errors, stated on the inputs of the config scenario. *)

\* the provider name the request asks for: override, else AI_PROVIDER
AskedProvider == IF IsSome(req.provider_override) THEN req.provider_override ELSE env["AI_PROVIDER"]

\* TRUE when the asked provider is missing or is no provider
ProviderUnresolved == AskedProvider \notin {Some(T_OpenAI), Some(T_GOOGLE), Some(T_Ollama), Some(N_anthropic)}

ModelUnresolved == ~IsSome(req.model_override) /\ ~IsSome(env["AI_MODEL"])

\* TRUE when the environment holds a credential for the asked provider
EnvCredential ==
    CASE AskedProvider = Some(T_OpenAI) -> IsSome(env["OPENAI_API_KEY"])
      [] AskedProvider = Some(T_GOOGLE) ->
            IsSome(env["GEMINI_API_KEY"]) \/ IsSome(env["GOOGLE_GENERATIVE_AI_API_KEY"])
      [] AskedProvider = Some(N_anthropic) -> IsSome(env["ANTHROPIC_API_KEY"])
      [] OTHER -> FALSE

CredentialUnresolved == ~IsSome(req.api_key_override) /\ ~EnvCredential

(* C10: when the provider, the model or the credential cannot be resolved   *)
(* from overrides and environment, chat_stream returns an error having      *)
(* emitted no event and having issued no HTTP request.                      *)
C10_ConfigErrorsPreflight ==
    (scn = "config" /\ (ProviderUnresolved \/ ModelUnresolved \/ CredentialUnresolved)) =>
        /\ events = <<>>
        /\ requests = <<>>
        /\ pc # "idle" => (pc = "done" /\ result # Ok /\ result # <<>>)

\* a request for OpenAI with a model and no credential anywhere has returned
C10_Witness_NoCredential ==
    /\ scn = "config"
    /\ AskedProvider = Some(T_OpenAI)
    /\ ~ModelUnresolved
    /\ CredentialUnresolved
    /\ pc = "done"
    /\ result = Err("ApiKeyNotConfigured")


-----------------------------------------------------------------------------
(* The configuration resolver, stated on the inputs of the resolve scenario. *)

\* the spellings of a provider name the inputs use
SpellingsOf(n) == {n, Capitalised(n), Uppercased(n)}

\* the provider each input text names, None for a text that names none
ExpectedProvider(x) ==
    CASE x \in SpellingsOf(N_openai) -> Some("OpenAI")
      [] x \in SpellingsOf(N_anthropic) -> Some("Anthropic")
      [] x \in SpellingsOf(N_gemini) \cup SpellingsOf(N_google) -> Some("Gemini")
      [] x \in SpellingsOf(N_bedrock) -> Some("Bedrock")
      [] x \in SpellingsOf(N_groq) -> Some("Groq")
      [] x \in SpellingsOf(N_deepseek) -> Some("DeepSeek")
      [] x \in SpellingsOf(N_ollama) -> Some("Ollama")
      [] x \in SpellingsOf(N_cohere) -> Some("Cohere")
      [] OTHER -> None

\* the provider the request asks for, None when it names none
AskedFor == IF IsSome(AskedProvider) THEN ExpectedProvider(Unwrap(AskedProvider)) ELSE None

\* the model the request asks for
AskedModel == IF IsSome(req.model_override) THEN req.model_override ELSE env["AI_MODEL"]

\* the credential the environment holds for a provider
ExpectedEnvKey(provider) ==
    CASE provider = "OpenAI" -> env["OPENAI_API_KEY"]
      [] provider = "Anthropic" -> env["ANTHROPIC_API_KEY"]
      [] provider = "Gemini" ->
            IF IsSome(env["GEMINI_API_KEY"]) THEN env["GEMINI_API_KEY"]
            ELSE env["GOOGLE_GENERATIVE_AI_API_KEY"]
      [] provider = "Groq" -> env["GROQ_API_KEY"]
      [] provider = "DeepSeek" -> env["DEEPSEEK_API_KEY"]
      [] provider = "Cohere" -> env["COHERE_API_KEY"]
      [] OTHER -> None

\* the base URL the environment holds for a provider
ExpectedEnvUrl(provider) ==
    CASE provider = "OpenAI" -> env["OPENAI_BASE_URL"]
      [] provider = "Anthropic" -> env["ANTHROPIC_BASE_URL"]
      [] provider = "DeepSeek" -> env["DEEPSEEK_BASE_URL"]
      [] provider = "Ollama" -> env["OLLAMA_BASE_URL"]
      [] OTHER -> None

\* what from_env_and_overrides returns for the request of this run
Resolved ==
    FromEnvAndOverrides(env, req.provider_override, req.model_override,
                        req.api_key_override, req.base_url_override)

\* TRUE when provider and model of the request resolve
Resolvable == scn = "resolve" /\ IsSome(AskedFor) /\ IsSome(AskedModel)

\* TRUE when the request sent carries the overrides that were supplied
RequestCarriesOverrides ==
    /\ IsSome(req.model_override) => requests[1].model = Unwrap(req.model_override)
    /\ IsSome(req.api_key_override) => requests[1].api_key = Unwrap(req.api_key_override)
    /\ IsSome(req.base_url_override) =>
            requests[1].url = Unwrap(req.base_url_override) \o ChatCompletionsPath

(* C11: for each of provider, model, credential and base URL, and for every *)
(* provider, a supplied override is the resolved value whatever the         *)
(* environment holds; the environment value is used only when the override  *)
(* is absent.                                                               *)
C11_OverridePrecedence ==
    Resolvable =>
        /\ Resolved.ok
        /\ Resolved.provider = Unwrap(AskedFor)
        /\ Resolved.model_id = Unwrap(AskedModel)
        /\ Resolved.api_key = IF IsSome(req.api_key_override) THEN req.api_key_override
                              ELSE ExpectedEnvKey(Unwrap(AskedFor))
        /\ Resolved.base_url = IF IsSome(req.base_url_override) THEN req.base_url_override
                               ELSE ExpectedEnvUrl(Unwrap(AskedFor))
        /\ requests # <<>> => RequestCarriesOverrides

\* a request with all four overrides has been sent while the environment
\* held another provider, model, credential and base URL
C11_Witness_AllOverridden ==
    /\ Resolvable
    /\ env["AI_PROVIDER"] = Some(N_anthropic)
    /\ env["AI_MODEL"] = Some(T_m0)
    /\ IsSome(env["DEEPSEEK_API_KEY"])
    /\ IsSome(env["DEEPSEEK_BASE_URL"])
    /\ req.provider_override = Some(Uppercased(N_deepseek))
    /\ Len(requests) = 1
    /\ requests[1].url = T_u1 \o ChatCompletionsPath
    /\ requests[1].api_key = T_k1
    /\ requests[1].model = T_m1


(* C12: for Bedrock and Ollama, which have no required credential, a        *)
(* request with no credential override passes configuration and reaches    *)
(* the Start event.  chat_stream requires a credential of every provider   *)
(* (line 117), and the resolver finds none for these two, so such a        *)
(* request fails before Start.                                             *)
C12_NoCredentialNeeded ==
    (/\ Resolvable
     /\ Unwrap(AskedFor) \in {"Bedrock", "Ollama"}
     /\ ~IsSome(req.api_key_override)
     /\ pc # "idle") =>
        (events # <<>> /\ events[1] = EvStart)

\* TRUE when neither the request nor the environment holds a credential
\* for the provider asked for
NoCredential ==
    Resolvable /\ ~IsSome(req.api_key_override) /\ ~IsSome(ExpectedEnvKey(Unwrap(AskedFor)))

(* C13: the resolver does not fail because a credential is missing: when    *)
(* provider and model resolve it returns a config with an absent            *)
(* credential, and the missing-credential error comes from chat_stream,     *)
(* after resolution and before Start.                                       *)
C13_ResolverAllowsNoCredential ==
    /\ NoCredential =>
        /\ Resolved.ok
        /\ Resolved.api_key = None
        /\ pc # "idle" =>
            (pc = "done" /\ result = Err("ApiKeyNotConfigured")
             /\ events = <<>> /\ requests = <<>>)
    /\ (scn = "resolve" /\ result = Err("ApiKeyNotConfigured")) =>
        (Resolved.ok /\ Resolved.api_key = None)

\* a request for Groq, with a model and no credential anywhere, has returned
C13_Witness_GroqNoKey ==
    /\ NoCredential
    /\ AskedFor = Some("Groq")
    /\ pc = "done"
    /\ result = Err("ApiKeyNotConfigured")

(* C14: provider name parsing is case-insensitive and maps each of the      *)
(* eight provider names to its provider, "google" and "gemini" both to      *)
(* Gemini; every other text fails with the unknown-provider error.          *)
C14_ProviderParsing ==
    (scn = "resolve" /\ IsSome(req.provider_override)) =>
        /\ ProviderFromString(Unwrap(req.provider_override))
               = ExpectedProvider(Unwrap(req.provider_override))
        /\ pc # "idle" =>
            (result = Err("UnknownProvider")
                <=> ~IsSome(ExpectedProvider(Unwrap(req.provider_override))))

\* a request for "GOOGLE" has been sent with the credential of Gemini
C14_Witness_GoogleUpperCase ==
    /\ scn = "resolve"
    /\ req.provider_override = Some(Uppercased(N_google))
    /\ ~IsSome(req.api_key_override)
    /\ requests # <<>>
    /\ requests[1].api_key = EnvText["GEMINI_API_KEY"]

-----------------------------------------------------------------------------
(* Message normalisation. *)

\* the positions of the request's messages whose role is not one of the three
RejectedPositions ==
    {k \in 1..Len(req.messages) : req.messages[k].role \in {T_tool, T_User}}

\* the outbound messages of the i-th request that come from the request's
\* messages: the last Len(req.messages) of its messages array
Carried(i) ==
    SubSeq(requests[i].messages,
           Len(requests[i].messages) - Len(req.messages) + 1, Len(requests[i].messages))

(* C15: a request message whose role is none of system, user and assistant  *)
(* fails normalisation on both paths: convert_ui_messages_to_genai returns  *)
(* an error, chat_stream returns an error, and no outbound request carries  *)
(* the message.                                                             *)
C15_UnknownRoleFails ==
    RejectedPositions # {} =>
        /\ ~ConvertUiMessagesToGenai(req.messages).ok
        /\ pc = "done" => result # Ok
        /\ \A i \in 1..Len(requests) : \A k \in RejectedPositions :
               Carried(i)[k].role # req.messages[k].role

\* TRUE for a message all of whose parts are Text parts
TextOnly(m) == \A j \in 1..Len(m.parts) : m.parts[j][1] = "text"

\* the texts of the parts of a Text-only message
PartTexts(m) == [j \in 1..Len(m.parts) |-> m.parts[j][2]]

\* TRUE when splitting the content both paths give the k-th message on
\* newline returns the texts of its parts
SplitsBack(k) ==
    /\ Split(LoopMessages(req.messages)[k].content, "\n") = PartTexts(req.messages[k])
    /\ ConvertUiMessagesToGenai(req.messages).ok =>
           Split(ConvertUiMessagesToGenai(req.messages).messages[k].content, "\n")
               = PartTexts(req.messages[k])
    /\ \A i \in 1..Len(requests) :
           Split(Carried(i)[k].content, "\n") = PartTexts(req.messages[k])

\* the statement of C16 as written: for every Text-only message of N parts,
\* splitting its normalised content on newline returns the N parts
C16_SplitRecoversParts ==
    \A k \in 1..Len(req.messages) : TextOnly(req.messages[k]) => SplitsBack(k)

\* TRUE for a Text-only message with at least one part, none holding a newline
SingleLineParts(m) ==
    /\ TextOnly(m)
    /\ m.parts # <<>>
    /\ \A j \in 1..Len(m.parts) : \A c \in 1..Len(m.parts[j][2]) : m.parts[j][2][c] # "\n"

(* C16: for every message made of N >= 1 Text parts none of which contains  *)
(* a newline, splitting the normalised content on newline returns exactly   *)
(* the original N parts in order.                                           *)
C16_SplitRecoversSingleLineParts ==
    \A k \in 1..Len(req.messages) : SingleLineParts(req.messages[k]) => SplitsBack(k)

\* a request whose first message has two single-line Text parts, one of them
\* empty, has been sent
C16_Witness_TwoPartsSent ==
    /\ scn = "msgs"
    /\ req.messages # <<>>
    /\ req.messages[1].parts = <<PartText(T_x), PartText(<<>>)>>
    /\ requests # <<>>
    /\ Carried(1)[1].content = <<"x", "\n">>

-----------------------------------------------------------------------------
(* Failed emit calls. *)

\* how many lines of a sequence are the line l
Occurrences(lines, l) == Cardinality({k \in 1..Len(lines) : lines[k] = l})

\* a text n times over
RECURSIVE Repeated(_, _)
Repeated(text, n) == IF n = 0 THEN <<>> ELSE text \o Repeated(text, n - 1)

\* the tool-call map after the lines of a lossy script, every emit call
\* delivered: the whole call c2 declares its name once and appends its
\* arguments each time it occurs
DeliveredMap(lines) ==
    IF Occurrences(lines, ToolWholeC2) = 0 THEN EmptyMap
    ELSE MapPut(EmptyMap, T_c2,
                <<T_edit_diagram, Repeated(ArgText2, Occurrences(lines, ToolWholeC2))>>)

\* the events of the k-th line of a lossy script, every emit call delivered:
\* the arguments of c2 are a JSON value only when it occurred once
DeliveredLineEvents(lines, k) ==
    CASE lines[k] = TextHello -> <<EvTextDelta(T_Hello)>>
      [] lines[k] = ToolWholeC2 ->
            <<EvToolCallStart(T_c2, T_edit_diagram), EvToolInputDelta(T_c2, ArgText2)>>
      [] lines[k] = FinishToolCalls ->
            IF Occurrences(SubSeq(lines, 1, k - 1), ToolWholeC2) = 1
            THEN <<EvToolInputComplete(T_c2, T_edit_diagram, ArgValue2)>>
            ELSE <<>>

\* the events of the lines of a lossy script, every emit call delivered
DeliveredEvents(lines) == Concat([k \in 1..Len(lines) |-> DeliveredLineEvents(lines, k)])

\* TRUE when an emit call of one of the four kinds of the line loop failed
StreamEventLost ==
    \E i \in lost :
        Kind(events[i]) \in {"TextDelta", "ToolCallStart", "ToolInputDelta", "ToolInputComplete"}

\* TRUE when s ends with t
EndsWith(s, t) == Len(t) <= Len(s) /\ SubSeq(s, Len(s) - Len(t) + 1, Len(s)) = t

(* C17: a failed emit of TextDelta, ToolCallStart, ToolInputDelta or        *)
(* ToolInputComplete leaves the buffer, the tool-call map and the later     *)
(* emit calls as they are when every emit is delivered, and chat_stream     *)
(* goes on; a failed emit of Start or Finish makes chat_stream return its   *)
(* error at once, and after a failed Start no request is sent.              *)
C17_EmitFailurePolicy ==
    scn = "lossy" =>
        /\ 1 \in lost =>
               (pc = "done" /\ result = Err("EmitStartFailed") /\ requests = <<>>
                /\ events = <<EvStart>>)
        /\ \A i \in lost : Kind(events[i]) = "Finish" =>
               (i = Len(events) /\ pc = "done" /\ result = Err("EmitFinishFailed"))
        /\ events # <<>> =>
               /\ SubSeq(events, 1, 1 + Len(DeliveredEvents(LinesSeen)))
                      = <<EvStart>> \o DeliveredEvents(LinesSeen)
               /\ Len(events) <= 2 + Len(DeliveredEvents(LinesSeen))
               /\ tool_call_args = DeliveredMap(LinesSeen)
               /\ EndsWith(FromUtf8Lossy(SubSeq(body, 1, pos)), buffer)
        /\ StreamEventLost =>
               /\ result \in {<<>>, Ok, Err("StreamError"), Err("EmitFinishFailed")}
               /\ result = Ok => (LinesDone = Len(script) /\ events[Len(events)] = EvFinish(None))

\* the ToolCallStart of a whole call was not delivered, and the stream went
\* on to complete the call and to finish
C17_Witness_LostStartOfCall ==
    /\ scn = "lossy"
    /\ script = <<ToolWholeC2, FinishToolCalls>>
    /\ lost = {2}
    /\ events = <<EvStart, EvToolCallStart(T_c2, T_edit_diagram),
                  EvToolInputDelta(T_c2, ArgText2),
                  EvToolInputComplete(T_c2, T_edit_diagram, ArgValue2), EvFinish(None)>>
    /\ result = Ok

-----------------------------------------------------------------------------
(* The environment shared by the invocations. *)

(* C18: the process environment is read-only at request time: whenever     *)
(* other invocations resolve their configuration during a request, a       *)
(* credential or base-URL override of the request has not been written to   *)
(* the environment, so from_env_and_overrides without overrides never       *)
(* returns it, and returns the same before, during and after the request.   *)
C18_OverridesNeverShared ==
    scn = "shared" =>
        /\ env \in Envs("shared")
        /\ \A i \in 1..Len(peers) :
               /\ peers[i].config = peers[1].config
               /\ peers[i].config.ok =>
                      /\ peers[i].config.api_key # Some(T_k1)
                      /\ peers[i].config.base_url # Some(T_u1)

\* a request with both overrides for the provider of the environment has
\* streamed to its end; one invocation resolved its configuration before
\* the request began, another after it returned
C18_Witness_ResolvedBeforeAndAfter ==
    /\ scn = "shared"
    /\ req.provider_override = None
    /\ req.api_key_override = Some(T_k1)
    /\ req.base_url_override = Some(T_u1)
    /\ result = Ok
    /\ Len(peers) = 2
    /\ peers[1].at = "idle"
    /\ peers[2].at = "done"
    /\ peers[2].config.ok
    /\ requests[1].api_key = T_k1

-----------------------------------------------------------------------------
(* The accumulator of tool-call arguments. *)

\* the argument text accumulated for a call id: empty while it has no entry
Accumulated(id) == IF id \in DOMAIN tool_call_args THEN tool_call_args[id][2] ELSE <<>>

\* the fragments of the ToolInputDelta events emitted for a call id, in order
EmittedFragments(id) ==
    [k \in 1..Len(SelectSeq(events, LAMBDA ev : Kind(ev) = "ToolInputDelta" /\ ev[2] = id)) |->
        SelectSeq(events, LAMBDA ev : Kind(ev) = "ToolInputDelta" /\ ev[2] = id)[k][3]]

(* C19: at every point of a stream and for every call id, the argument     *)
(* text accumulated for the id is the concatenation, in arrival order, of   *)
(* the fragments of all ToolInputDelta events emitted so far for the id,    *)
(* fragments that arrive before the id's tool name included.  A fragment    *)
(* whose id has no entry yet is emitted and not appended, so this is        *)
(* violated.                                                                *)
C19_AccumulatedIsEmitted ==
    scn = "tool" => \A id \in CallIds : Accumulated(id) = Concat(EmittedFragments(id))

\* the positions of the entries of a sequence that declare a name
Declarations(es) == {k \in 1..Len(es) : IsSome(es[k].name)}

\* the first entry of a sequence that declares a name, and those after it
FromFirstDeclaration(es) ==
    SubSeq(es, CHOOSE k \in Declarations(es) : \A j \in Declarations(es) : k <= j, Len(es))

\* TRUE when the lines processed so far declare the name of a call id again
Redeclared(id) == Cardinality(Declarations(EntriesOf(id, LinesSeen))) >= 2

(* C20: re-declaring the name of a call id that is in the tool-call map     *)
(* leaves its entry as it is: the stored name stays the first one declared  *)
(* and the accumulated text keeps the fragments that arrived since, so a    *)
(* ToolInputComplete of the id carries the first name and the value of the  *)
(* fragments accumulated before and after the re-declaration.               *)
C20_RedeclarationKeepsEntry ==
    \A id \in CallIds :
        (scn = "redecl" /\ Redeclared(id)) =>
            /\ id \in DOMAIN tool_call_args
            /\ tool_call_args[id][1]
                   = Unwrap(FromFirstDeclaration(EntriesOf(id, LinesSeen))[1].name)
            /\ tool_call_args[id][2]
                   = Concat(Fragments(FromFirstDeclaration(EntriesOf(id, LinesSeen))))
            /\ \A k \in 1..Len(events) :
                   (IsComplete(events[k]) /\ events[k][2] = id) =>
                       /\ events[k][3]
                              = Unwrap(FromFirstDeclaration(EntriesOf(id, LinesSeen))[1].name)
                       /\ events[k][4] = ArgValue1

\* the call c1 was declared as display_diagram with a first fragment,
\* declared again as edit_diagram with a second one, and completed
C20_Witness_CompletedAfterRedeclaration ==
    /\ scn = "redecl"
    /\ script = <<ToolStartFrag1, ToolRedeclareFrag2, FinishToolCalls>>
    /\ events = <<EvStart, EvToolCallStart(T_c1, T_display_diagram),
                  EvToolInputDelta(T_c1, Frag1), EvToolCallStart(T_c1, T_edit_diagram),
                  EvToolInputDelta(T_c1, Frag2),
                  EvToolInputComplete(T_c1, T_display_diagram, ArgValue1)>>

-----------------------------------------------------------------------------
(* The finish check. *)

\* how many ToolInputComplete events a sequence of events holds
Completes(evs) == Count(evs, IsComplete)

(* C21: ToolInputComplete is emitted only while a line whose finish_reason  *)
(* is stop or tool_calls is processed: a step that processes a line with    *)
(* another finish_reason, with a null one or with none emits no             *)
(* ToolInputComplete and leaves in the tool-call map what the delta of the  *)
(* line left there.                                                         *)
C21_CompleteOnlyOnFinishSignal ==
    [][scn = "finish" =>
          /\ Completes(events') > Completes(events) =>
                 (AtScriptLine /\ IsFinishLine(NextScriptLine))
          /\ (AtScriptLine /\ ~IsFinishLine(NextScriptLine)) =>
                 tool_call_args' = DeliveredMap(SubSeq(script, 1, LinesDone + 1))
          /\ (AtScriptLine /\ NextScriptLine \in {FinishLength, FinishNull}) =>
                 (events' = events /\ tool_call_args' = tool_call_args)]_vars

\* a whole tool call was followed by a line whose finish_reason is length:
\* the call is in the map and nothing was completed
C21_Witness_LengthAfterCall ==
    /\ scn = "finish"
    /\ LinesSeen = <<ToolWholeC2, FinishLength>>
    /\ events = <<EvStart, EvToolCallStart(T_c2, T_edit_diagram), EvToolInputDelta(T_c2, ArgText2)>>
    /\ tool_call_args = DeliveredMap(<<ToolWholeC2>>)

-----------------------------------------------------------------------------
(* Lines that do not decode. *)

\* the lines of a sequence that are not in a set, in order
Without(lines, S) == SelectSeq(lines, LAMBDA l : l \notin S)

\* the events of the k-th of lines that all decode, the finish signal of a
\* line without delta counted as one: c2 is completed when it occurred once
DecodedLineEvents(lines, k) ==
    CASE lines[k] = ToolWholeC2 ->
            <<EvToolCallStart(T_c2, T_edit_diagram), EvToolInputDelta(T_c2, ArgText2)>>
      [] lines[k] \in {FinishToolCalls, NoDeltaFinish} ->
            IF Occurrences(SubSeq(lines, 1, k - 1), ToolWholeC2) = 1
            THEN <<EvToolInputComplete(T_c2, T_edit_diagram, ArgValue2)>>
            ELSE <<>>

DecodedEvents(lines) == Concat([k \in 1..Len(lines) |-> DecodedLineEvents(lines, k)])

\* TRUE when the events and the map are those of the lines processed so far
\* with the lines of a set taken out, and a stream that ends has passed
\* over every line
AsIfRemoved(S) ==
    /\ SubSeq(events, 1, 1 + Len(DecodedEvents(Without(LinesSeen, S))))
           = <<EvStart>> \o DecodedEvents(Without(LinesSeen, S))
    /\ Len(events) <= 2 + Len(DecodedEvents(Without(LinesSeen, S)))
    /\ tool_call_args = DeliveredMap(Without(LinesSeen, S))
    /\ result = Ok => (LinesDone = Len(script) /\ events[Len(events)] = EvFinish(None))

\* the statement of C22 as written: a line that is malformed JSON, that
\* lacks choices or delta, or that does not begin with the prefix emits no
\* event and changes no state, the other lines being processed as if it was
\* not there
C22_AnomaliesIsolated ==
    (scn = "anomaly" /\ events # <<>>) =>
        AsIfRemoved({BadJson, NoChoices, NoDelta, NoDeltaFinish, NoPrefix})

(* C22: decode anomalies are not fatal and isolated: a line that is         *)
(* malformed JSON after the prefix, that lacks choices, that lacks delta    *)
(* and carries no finish signal, or that does not begin with the prefix     *)
(* emits no event and changes no state, and the events of all other lines   *)
(* are those of the body with that line removed.                            *)
C22_AnomaliesWithoutFinishIsolated ==
    (scn = "anomaly" /\ events # <<>>) =>
        AsIfRemoved({BadJson, NoChoices, NoDelta, NoPrefix})

\* a malformed line and a line without the prefix stood between a whole
\* tool call and its finish signal, and the call was completed
C22_Witness_AnomaliesBeforeFinish ==
    /\ scn = "anomaly"
    /\ \E a \in {BadJson, NoChoices, NoDelta, NoPrefix} :
           script = <<ToolWholeC2, a, FinishToolCalls>>
    /\ result = Ok
    /\ events = <<EvStart, EvToolCallStart(T_c2, T_edit_diagram),
                  EvToolInputDelta(T_c2, ArgText2),
                  EvToolInputComplete(T_c2, T_edit_diagram, ArgValue2), EvFinish(None)>>

-----------------------------------------------------------------------------
(* The end of the byte stream. *)

\* TRUE when the body of the response does not end with a newline
Unterminated == body # <<>> /\ body[Len(body)] # "\n"

\* the lines of the script but the last
FrontLines == SubSeq(script, 1, Len(script) - 1)

(* C23: when the byte source ends, what remains in the buffer after the     *)
(* last newline is discarded without being processed: a last line without   *)
(* its newline produces no event and does not change the tool-call map,     *)
(* whatever it carries, and the stream still ends with Finish.              *)
C23_TrailingLineDiscarded ==
    (scn = "tail" /\ Unterminated /\ pc = "done" /\ result = Ok) =>
        /\ events = (<<EvStart>> \o DeliveredEvents(FrontLines)) \o <<EvFinish(None)>>
        /\ tool_call_args = DeliveredMap(FrontLines)
        /\ buffer = FromUtf8Lossy(Utf8Encode(RenderLine(script[Len(script)])))

\* a whole tool call was followed by a finish signal without its newline:
\* the stream finished and the call was never completed
C23_Witness_FinishSignalLost ==
    /\ scn = "tail"
    /\ Unterminated
    /\ script = <<ToolWholeC2, FinishToolCalls>>
    /\ result = Ok
    /\ events = <<EvStart, EvToolCallStart(T_c2, T_edit_diagram),
                  EvToolInputDelta(T_c2, ArgText2), EvFinish(None)>>

-----------------------------------------------------------------------------
(* The messages array of the outbound request. *)

\* the texts of the Text parts of the k-th message of the request
TextsOf(k) ==
    [j \in 1..Len(SelectSeq(req.messages[k].parts, LAMBDA p : p[1] = "text")) |->
        SelectSeq(req.messages[k].parts, LAMBDA p : p[1] = "text")[j][2]]

\* where the j-th of a list of texts starts in the list joined with one
\* separating character: one after the texts before it and their separators
StartOf(texts, j) == 1 + Len(Concat(SubSeq(texts, 1, j - 1))) + (j - 1)

\* TRUE when content is the texts in order with one newline between neighbours
IsNewlineJoined(content, texts) ==
    /\ Len(content) = StartOf(texts, Len(texts) + 1) - (IF texts = <<>> THEN 1 ELSE 2)
    /\ \A j \in 1..Len(texts) :
           /\ SubSeq(content, StartOf(texts, j), StartOf(texts, j) + Len(texts[j]) - 1)
                  = texts[j]
           /\ j < Len(texts) => content[StartOf(texts, j) + Len(texts[j])] = "\n"

\* the system prompt of the request
PromptOfRequest ==
    IF req.minimal_style = Some(TRUE) THEN <<"MINIMAL_STYLE_HEADER", "BASE_PROMPT">>
    ELSE <<"BASE_PROMPT">>

\* the diagram context of a request that supplies the current markup
ContextOfCurrent ==
    (IF IsSome(req.previous_xml)
     THEN (L_previous_open \o T_xml0) \o L_previous_close
     ELSE <<>>)
    \o (L_current_open \o T_xml1) \o L_current_close

\* how many messages precede those of the conversation in a request
Preamble(i) == Len(requests[i].messages) - Len(req.messages)

(* C24: the messages array of the outbound request is, in order: the        *)
(* system prompt message; then, only when there is a diagram context, one   *)
(* system message with that context; then one (role, content) message per   *)
(* request message in the original order, its content the Text parts joined *)
(* with a newline in part order, the other parts contributing nothing.      *)
C24_OutboundMessages ==
    \A i \in 1..Len(requests) :
        scn = "msgs" =>
            /\ requests[i].messages[1] = [role |-> R_system, content |-> PromptOfRequest]
            /\ IsSome(req.xml) =>
                   /\ Preamble(i) = 2
                   /\ requests[i].messages[2] = [role |-> R_system, content |-> ContextOfCurrent]
            /\ ~IsSome(req.xml) => Preamble(i) = 1
            /\ \A k \in 1..Len(req.messages) :
                   /\ Carried(i)[k].role = req.messages[k].role
                   /\ IsNewlineJoined(Carried(i)[k].content, TextsOf(k))

\* a request with both markups was sent for an assistant message of a Text
\* part and a File part, after a user message
C24_Witness_ContextAndTwoMessages ==
    /\ scn = "msgs"
    /\ IsSome(req.xml)
    /\ IsSome(req.previous_xml)
    /\ req.messages = <<UserHello, UIMessage(R_assistant, <<PartText(T_x), PartFile(T_u1)>>)>>
    /\ requests # <<>>
    /\ Len(requests[1].messages) = 4
    /\ requests[1].messages[3] = [role |-> R_user, content |-> T_Hello]
    /\ requests[1].messages[4] = [role |-> R_assistant, content |-> T_x]

\* TRUE when t occurs in s as it is
Contains(s, t) == \E a \in 0..(Len(s) - Len(t)) : SubSeq(s, a + 1, a + Len(t)) = t

\* TRUE when the i-th request has a context message that holds a markup
ContextEmbeds(i, markup) ==
    /\ Len(requests[i].messages) = 2 + Len(req.messages)
    /\ requests[i].messages[2].role = R_system
    /\ Contains(requests[i].messages[2].content, markup)

(* C25: whenever the payload supplies previous or current diagram markup,   *)
(* the markup is embedded as it is in the context system message of the     *)
(* outbound request, previous markup supplied without current markup        *)
(* included.  The context is built only when current markup is there, so    *)
(* previous markup that comes alone is dropped.                             *)
C25_MarkupEmbedded ==
    \A i \in 1..Len(requests) :
        scn = "msgs" =>
            /\ IsSome(req.xml) => ContextEmbeds(i, Unwrap(req.xml))
            /\ IsSome(req.previous_xml) => ContextEmbeds(i, Unwrap(req.previous_xml))

-----------------------------------------------------------------------------
(* Termination. *)

\* TRUE when chat_stream has returned after the end of the byte stream
ReturnedAfterEnd == pc = "done" /\ result = Ok /\ events[Len(events)] = EvFinish(None)

\* TRUE when chat_stream has returned the error of a chunk
ReturnedChunkError == pc = "done" /\ result = Err("StreamError")

(* C26: stream processing terminates: every iteration of the line loop    *)
(* removes at least one character from the front of the buffer, and a       *)
(* stream that is being read is followed by the return of chat_stream,      *)
(* with Finish emitted as the last event unless a chunk was an error.       *)
C26_StreamTerminates ==
    /\ [][(scn = "tail" /\ pc = "stream" /\ HasLine) =>
              (Len(buffer') < Len(buffer)
               /\ buffer' = SubSeq(buffer, Len(buffer) - Len(buffer') + 1, Len(buffer)))]_vars
    /\ [](pc = "stream" => <>(ReturnedAfterEnd \/ ReturnedChunkError))

\* a body of three lines has been read to its end and chat_stream has returned
C26_Witness_ReadToTheEnd ==
    /\ scn = "tail"
    /\ Len(script) = 3
    /\ pos = Len(body)
    /\ ReturnedAfterEnd

-----------------------------------------------------------------------------
(* What ends a stream. *)

IsFinishEvent(ev) == Kind(ev) = "Finish"

\* the lines of a sequence that are neither empty nor the termination sentinel
DataLines(lines) == SelectSeq(lines, LAMBDA l : ~IsSkippedLine(l))

\* TRUE when no line of the script carries a finish signal
NoFinishSignal == \A k \in 1..Len(script) : ~IsFinishLine(script[k])

(* C27: Finish follows the end of the byte source and nothing else: it is   *)
(* emitted exactly when chat_stream returns Ok, which it does only after    *)
(* every line of the body was processed, and never after a chunk error.     *)
(* Neither a finish signal nor the termination sentinel ends processing:    *)
(* the events are those of all the data lines received so far, wherever     *)
(* finish signals and sentinels stand among them.  A stream without finish  *)
(* signal ends with Finish and without ToolInputComplete.                   *)
C27_FinishFollowsByteSource ==
    scn = "skip" =>
        /\ Count(events, IsFinishEvent) = (IF pc = "done" /\ result = Ok THEN 1 ELSE 0)
        /\ (pc = "done" /\ result = Ok) =>
               /\ pos = Len(body)
               /\ LinesDone = Len(script)
               /\ events[Len(events)] = EvFinish(None)
        /\ (pc = "stream" \/ (pc = "done" /\ result \in {Ok, Err("StreamError")})) =>
               /\ SubSeq(events, 1, 1 + Len(DeliveredEvents(DataLines(LinesSeen))))
                      = <<EvStart>> \o DeliveredEvents(DataLines(LinesSeen))
               /\ Len(events) <= 2 + Len(DeliveredEvents(DataLines(LinesSeen)))
        /\ (pc = "done" /\ result = Ok /\ NoFinishSignal) => Completes(events) = 0

\* the sentinel stood between a whole tool call and its finish signal, the
\* call was completed after it and the stream ended with Finish
C27_Witness_CompletedAfterDone ==
    /\ scn = "skip"
    /\ script = <<ToolWholeC2, DoneLine, FinishToolCalls>>
    /\ ReturnedAfterEnd
    /\ events[4] = EvToolInputComplete(T_c2, T_edit_diagram, ArgValue2)

-----------------------------------------------------------------------------
(* ToolCallStart of a call id that is already known. *)

\* the positions of the ToolCallStart events of a call id
StartsOf(id) == {k \in 1..Len(events) : Kind(events[k]) = "ToolCallStart" /\ events[k][2] = id}

(* C28: for each call id at most one ToolCallStart is emitted per stream,   *)
(* whatever the later payloads of the id declare.  Lines 249-254 emit       *)
(* ToolCallStart for every payload that carries an id and a name, outside   *)
(* the or_insert that keeps the entry, so a repeated declaration emits a    *)
(* second one.                                                              *)
C28_OneStartPerCall ==
    \A id \in CallIds : scn = "redecl" => Cardinality(StartsOf(id)) <= 1

-----------------------------------------------------------------------------
(* Tool-call entries without id. *)

\* TRUE for a line whose tool_calls entries all come without id
IsNoIdLine(l) == l.t = "data" /\ l.tools # <<>> /\ \A k \in 1..Len(l.tools) : ~IsSome(l.tools[k].id)

\* the text accumulated for a call id by the entries of lines that carry the id
TextOfId(id, lines) ==
    IF Declarations(EntriesOf(id, lines)) = {} THEN None
    ELSE Some(Concat(Fragments(FromFirstDeclaration(EntriesOf(id, lines)))))

\* the events of one entry that carries an id: its name, then its fragment
EntryEvents(tc) ==
    (IF IsSome(tc.name) THEN <<EvToolCallStart(Unwrap(tc.id), Unwrap(tc.name))>> ELSE <<>>)
    \o (IF IsSome(tc.args) THEN <<EvToolInputDelta(Unwrap(tc.id), Unwrap(tc.args))>> ELSE <<>>)

\* the ToolCallStart and ToolInputDelta events of the entries of lines that
\* carry an id, in arrival order
IdEvents(lines) ==
    Concat([k \in 1..Len(SelectSeq(Entries(lines), LAMBDA tc : IsSome(tc.id))) |->
               EntryEvents(SelectSeq(Entries(lines), LAMBDA tc : IsSome(tc.id))[k])])

\* the finish signals among the first lines that find the text of a call id
\* to be a JSON value
CompletingLines(id, lines) ==
    {k \in 1..Len(lines) :
        /\ IsFinishLine(lines[k])
        /\ IsSome(TextOfId(id, SubSeq(lines, 1, k)))
        /\ IsSome(KnownValue(Unwrap(TextOfId(id, SubSeq(lines, 1, k)))))}

\* the positions of the ToolInputComplete events of a call id
CompletesOf(id) == {k \in 1..Len(events) : IsComplete(events[k]) /\ events[k][2] = id}

(* C29: a tool_calls entry that carries no id emits no event and changes    *)
(* no accumulator state: the step that processes a line of such entries     *)
(* leaves the events and the tool-call map as they are, the ToolCallStart   *)
(* and ToolInputDelta events are those of the entries that carry an id,     *)
(* the text accumulated for a call id is made of the fragments that carry   *)
(* that id, and a ToolInputComplete carries the value of that text.         *)
C29_EntryWithoutIdIgnored ==
    /\ [][(scn = "noid" /\ AtScriptLine /\ IsNoIdLine(NextScriptLine)) =>
              (events' = events /\ tool_call_args' = tool_call_args)]_vars
    /\ []((scn = "noid" /\ pc \in {"stream", "done"} /\ events # <<>>) =>
            /\ SelectSeq(events, IsDelta) = IdEvents(LinesSeen)
            /\ \A id \in CallIds :
                   /\ id \in DOMAIN tool_call_args <=> IsSome(TextOfId(id, LinesSeen))
                   /\ id \in DOMAIN tool_call_args =>
                          tool_call_args[id][2] = Unwrap(TextOfId(id, LinesSeen))
                   /\ Cardinality(CompletesOf(id))
                          = Cardinality(CompletingLines(id, LinesSeen))
                   /\ \A k \in CompletesOf(id) :
                          events[k][4] \in {Unwrap(KnownValue(Unwrap(TextOfId(id, SubSeq(LinesSeen, 1, j))))) :
                                               j \in CompletingLines(id, LinesSeen)})

\* a fragment without id came between the whole call c2 and the finish
\* signal, and c2 was completed with the value of its own arguments
C29_Witness_FragmentLeftOut ==
    /\ scn = "noid"
    /\ script = <<ToolWholeC2, NoIdFrag2, FinishToolCalls>>
    /\ events = <<EvStart, EvToolCallStart(T_c2, T_edit_diagram),
                  EvToolInputDelta(T_c2, ArgText2),
                  EvToolInputComplete(T_c2, T_edit_diagram, ArgValue2), EvFinish(None)>>

-----------------------------------------------------------------------------
(* Two invocations on one window. *)

\* TRUE when an emit call of the second invocation was made after the Start
\* of the first one and before its Finish
OtherInsideFirst ==
    /\ pc = "done"
    /\ result = Ok
    /\ \E i \in 1..Len(other.events) :
           other.events[i].at >= 1 /\ other.events[i].at < Len(events)

\* TRUE when an emit call of the first invocation was made after the Start
\* of the second one and before its Finish
FirstInsideOther ==
    /\ other.pc = "done"
    /\ other.result = Ok
    /\ other.events[1].at < other.events[Len(other.events)].at

(* C30: streams are isolated on the event channel: with two invocations on  *)
(* the same window, the emit calls made between the Start of one and its    *)
(* terminal event are all its own, and a step that changes the buffer or    *)
(* the tool-call map of one invocation leaves those of the other as they    *)
(* are.  Both invocations emit on the one channel "chat-stream" and each    *)
(* awaits its chunks, so their events do interleave.                        *)
C30_StreamsIsolated ==
    /\ [](scn = "window" => (~OtherInsideFirst /\ ~FirstInsideOther))
    /\ [][scn = "window" =>
              ~(/\ <<buffer, tool_call_args>>' # <<buffer, tool_call_args>>
                /\ <<other.buffer, other.tool_call_args>>'
                       # <<other.buffer, other.tool_call_args>>)]_vars

====
